---- MODULE Spec2Model ----
(***************************************************************************)
(* Model of the factory dashboards back end (back-dashboards-pyhton):      *)
(*   main.py               FastAPI handlers grafico1..grafico9,            *)
(*                         producao_por_linha_interativo, kpis_resumo      *)
(*   dashboard_oee_teep.py Dash helpers create_fig_oee_mensal,             *)
(*                         create_fig_teep_mensal, compute_kpis,           *)
(*                         create_dash_app / atualizar_graficos            *)
(*                                                                         *)
(* Conventions                                                             *)
(*   - a float is an integer number of 1/10000 (7700 is 0.77 and 770000    *)
(*     is 77.0), one that may be NaN is [nan |-> BOOLEAN, v |-> Int];      *)
(*   - a mean is the exact rational [nan, num, den] = sum / count, in      *)
(*     the same unit;                                                      *)
(*   - a calendar date is the integer yyyymmdd, a month (Period "M") the   *)
(*     integer yyyymm; a parsed date is [nat |-> BOOLEAN, t |-> Int];      *)
(*   - a Python str that is compared or sorted is the tuple of its code    *)
(*     points (<<76, 49>> is "L1"), compared as Python compares str;       *)
(*   - the texts the handlers show are written without diacritics and      *)
(*     with ">=" for the sign of the KPI target.                           *)
(***************************************************************************)
EXTENDS Integers, Sequences, FiniteSets, TLC

VARIABLES
    oee,        \* oee.xlsx as pd.read_excel would return it
    teep,       \* teep.xlsx as pd.read_excel would return it
    resp,       \* what the last entry point returned or raised
    layout      \* create_dash_app: dash_app.layout, built once

vars == <<oee, teep, resp, layout>>

(***************************************************************************)
(* Bounds of the model                                                     *)
(***************************************************************************)
\* rows of oee.xlsx plus rows of teep.xlsx
MaxRows == 3
\* formata_kpi is applied to the values at most this many 1/10000 from the
\* target, and to 0, 1 and NaN
MaxDesvio == 25

(***************************************************************************)
(* Cells and files                                                         *)
(***************************************************************************)
Num(x) == [nan |-> FALSE, v |-> x]
NaN == [nan |-> TRUE, v |-> 0]

\* a cell of the "data" column as read: a date, an empty cell, or a text
\* that is no date
CelData(d) == [tipo |-> "data", valor |-> d]
CelVazia == [tipo |-> "vazia", valor |-> 0]
CelTexto == [tipo |-> "texto", valor |-> 0]

Timestamp(d) == [nat |-> FALSE, t |-> d]
NaT == [nat |-> TRUE, t |-> 0]

\* a cell of the "linha" column as read: a text or an integer
CelStr(s) == [tipo |-> "str", s |-> s, n |-> 0]
CelInt(n) == [tipo |-> "int", s |-> <<>>, n |-> n]

\* a workbook: whether the file is there, the texts of its header row in sheet
\* order, and its data rows; a row gives, under
\* the name of a column, the cell of the first column of that name
ArquivoAusente == [exists |-> FALSE, columns |-> <<>>, rows |-> <<>>]

esperadas_oee ==
    <<"data", "linha", "disponibilidade", "performance", "qualidade", "oee">>
esperadas_teep == <<"data", "linha", "utilizacao", "teep">>

Range(s) == {s[i] : i \in 1..Len(s)}

Min(S) == CHOOSE x \in S : \A y \in S : x <= y
Max(S) == CHOOSE x \in S : \A y \in S : x >= y

(***************************************************************************)
(* Python and pandas primitives the handlers use                           *)
(***************************************************************************)
\* str(n) of a non-negative integer, as code points
RECURSIVE Digits(_)
Digits(n) == IF n < 10 THEN <<48 + n>> ELSE Append(Digits(n \div 10), 48 + (n % 10))

\* a header text: the letters of a name, how they are cased ("lower",
\* "upper", or "title" for a capital initial), the blanks before and after
\* them, and the number pd.read_excel appended after a dot (0: none)
\* the text a literal of the code is: lower case, no blanks, no number
StrLit(c) == [nome |-> c, caixa |-> "lower", esq |-> 0, dir |-> 0, sufixo |-> 0]

\* str.strip(): the blanks at both ends go (those before an appended number
\* are inside the text)
str_strip(s) == [s EXCEPT !.esq = 0, !.dir = IF s.sufixo = 0 THEN 0 ELSE @]

\* str.lower()
str_lower(s) == [s EXCEPT !.caixa = "lower"]

\* the label pd.read_excel gives column k: a header text that repeats an
\* earlier one gets ".1", ".2", ... appended
read_excel_label(file, k) ==
    IF \E j \in 1..(k - 1) : file.columns[j] = file.columns[k]
    THEN [file.columns[k] EXCEPT
            !.sufixo = Cardinality({j \in 1..(k - 1) : file.columns[j] = file.columns[k]})]
    ELSE file.columns[k]

\* a defect C19_HeaderNormalizationDistinct has to detect: the labels are put
\* in lower case and the blanks around them stay
normalized_columns_NoStrip(file) ==
    {<<q[1], str_lower(q[2])>> :
        q \in {<<k, read_excel_label(file, k)>> : k \in 1..Len(file.columns)}}

\* df.columns = df.columns.str.strip().str.lower(), as pairs of a column's
\* position and its label
normalized_columns(file) ==
    {<<p[1], str_lower(p[2])>> :
        p \in {<<q[1], str_strip(q[2])>> :
                 q \in {<<k, read_excel_label(file, k)>> : k \in 1..Len(file.columns)}}}

\* the names c for which "c in df.columns" holds: a label that is the text of
\* a literal is in df.columns under its name
df_columns(file) ==
    {p[2].nome : p \in {q \in normalized_columns(file) : q[2] = StrLit(q[2].nome)}}

\* df[c] is a DataFrame and no Series: more than one column bears the label
duplicated(file, c) ==
    Cardinality({p \in normalized_columns(file) : p[2] = StrLit(c)}) > 1

\* Series.astype(str) on one cell of the "linha" column
astype_str(c) == IF c.tipo = "int" THEN Digits(c.n) ELSE c.s

\* a < b for two Python str
RECURSIVE StrLess(_, _)
StrLess(a, b) ==
    IF b = <<>> THEN FALSE
    ELSE IF a = <<>> THEN TRUE
    ELSE IF Head(a) # Head(b) THEN Head(a) < Head(b)
    ELSE StrLess(Tail(a), Tail(b))

\* sorted(list of distinct str)
RECURSIVE sorted_str(_)
sorted_str(S) ==
    IF S = {} THEN <<>>
    ELSE LET m == CHOOSE x \in S : \A y \in S \ {x} : StrLess(x, y)
         IN <<m>> \o sorted_str(S \ {m})

\* pd.to_datetime on one cell (errors="raise": a text that is no date raises)
to_datetime(c) == IF c.tipo = "data" THEN Timestamp(c.valor) ELSE NaT
to_datetime_raises(rows) == \E i \in 1..Len(rows) : rows[i].data.tipo = "texto"
\* pd.to_datetime(df["Data"]) raises: on a text that is no date, and on the
\* DataFrame that df["Data"] is when two columns bear the label
to_datetime_Data_raises(file) ==
    duplicated(file, "data") \/ to_datetime_raises(file.rows)

\* Series.dt.to_period("M") on a date: the date cut to year and month
to_period_M(t) == t \div 100

Perms(n) == {f \in [1..n -> 1..n] : \A i, j \in 1..n : f[i] = f[j] => i = j}

\* DataFrame.sort_values("Data"), kind="quicksort", na_position="last": the
\* dated rows ascending by date, rows of one date in an order the library does
\* not promise (quicksort is not stable), then the NaT rows in their original
\* order. The set of the orders it may return, each a permutation p of the
\* positions: the sorted frame's i-th row is frame[p[i]].
sort_values(frame) ==
    {p \in Perms(Len(frame)) :
        \A i, j \in 1..Len(frame) : i < j =>
            LET a == frame[p[i]].Data
                b == frame[p[j]].Data
            IN  /\ a.nat => b.nat
                /\ (~a.nat /\ ~b.nat) => a.t <= b.t
                /\ (a.nat /\ b.nat) => p[i] < p[j]}

Reorder(frame, p) == [i \in 1..Len(frame) |-> frame[p[i]]]

\* DataFrameGroupBy.tail(1): of every group, its last row, in the frame's order
RECURSIVE SelectIdx(_, _)
SelectIdx(s, keep) ==
    IF s = <<>> THEN <<>>
    ELSE LET rest == SelectIdx(Tail(s), {k - 1 : k \in keep \ {1}})
         IN IF 1 \in keep THEN <<Head(s)>> \o rest ELSE rest

groupby_tail1(s) ==
    SelectIdx(s, {i \in 1..Len(s) : \A j \in 1..Len(s) : s[j].Linha = s[i].Linha => j <= i})

\* a defect C8_CategoryFilter has to detect: the filter keeps every row
filter_linha_KeepsAll(s, linha) == s

\* df[df["Linha"] == linha]
filter_linha(s, linha) == SelectIdx(s, {i \in 1..Len(s) : s[i].Linha = linha})

Raise(e) == [raised |-> TRUE, exc |-> e]
\* the part of a handler an earlier exception kept from running
NotReached == [raised |-> TRUE, exc |-> "not reached"]

(***************************************************************************)
(* KPI cards: kpis_resumo (main.py) and compute_kpis (dashboard_oee_teep)  *)
(***************************************************************************)
\* meta = 0.77
meta == 7700

\* a defect C24_DeltaSignAgrees has to detect: the sign printed is that of the
\* rounded number, so a negative x that rounds to zero prints "+0,0"
Fmt1_SignOfRounded(x, plus) ==
    LET a == IF x < 0 THEN 0 - x ELSE x
        q == a \div 1000
        r == a % 1000
        t == IF r > 500 \/ (r = 500 /\ q % 2 = 1) THEN q + 1 ELSE q
        sign == IF x < 0 /\ t > 0 THEN "-" ELSE IF plus THEN "+" ELSE ""
    IN sign \o ToString(t \div 10) \o "," \o ToString(t % 10)

\* f"{x:.1f}" (plus = FALSE) and f"{x:+.1f}" (plus = TRUE) with "." replaced
\* by ",": x rounded to one decimal, half to even; a negative x keeps its sign
\* when it rounds to zero, as Python prints "-0.0"
Fmt1(x, plus) ==
    LET a == IF x < 0 THEN 0 - x ELSE x
        q == a \div 1000
        r == a % 1000
        t == IF r > 500 \/ (r = 500 /\ q % 2 = 1) THEN q + 1 ELSE q
        sign == IF x < 0 THEN "-" ELSE IF plus THEN "+" ELSE ""
    IN sign \o ToString(t \div 10) \o "," \o ToString(t % 10)

\* f"{x:.0f}" for x >= 0
Fmt0(x) ==
    LET q == x \div 10000
        r == x % 10000
    IN ToString(IF r > 5000 \/ (r = 5000 /\ q % 2 = 1) THEN q + 1 ELSE q)

\* a defect C13_PassFailFlag has to detect: a value equal to the target does
\* not count as above it
formata_kpi_Strict(title, valor_0a1) ==
    LET meta_0a1 == meta
        valor_pct == valor_0a1.v * 100
        meta_pct == meta_0a1 * 100
        delta_pct == valor_pct - meta_pct
        is_positive == ~valor_0a1.nan /\ valor_0a1.v > meta_0a1
    IN [title |-> title,
        value |-> (IF valor_0a1.nan THEN "nan" ELSE Fmt1(valor_pct, FALSE)) \o "%",
        meta |-> "Meta: >= " \o Fmt0(meta_pct) \o "%",
        delta_label |-> IF is_positive THEN "Acima da meta" ELSE "Abaixo da meta",
        delta_value |-> (IF valor_0a1.nan THEN "+nan" ELSE Fmt1(delta_pct, TRUE)) \o "%",
        is_positive |-> is_positive]

formata_kpi(title, valor_0a1) ==
    LET meta_0a1 == meta
        valor_pct == valor_0a1.v * 100
        meta_pct == meta_0a1 * 100
        delta_pct == valor_pct - meta_pct
        is_positive == ~valor_0a1.nan /\ valor_0a1.v >= meta_0a1
    IN [title |-> title,
        value |-> (IF valor_0a1.nan THEN "nan" ELSE Fmt1(valor_pct, FALSE)) \o "%",
        meta |-> "Meta: >= " \o Fmt0(meta_pct) \o "%",
        delta_label |-> IF is_positive THEN "Acima da meta" ELSE "Abaixo da meta",
        delta_value |-> (IF valor_0a1.nan THEN "+nan" ELSE Fmt1(delta_pct, TRUE)) \o "%",
        is_positive |-> is_positive]

\* a defect C12_ZeroCategoryFallback has to detect: the value given to a card
\* without a category is no number
ValorDefault_NaN == NaN

\* the value of a card whose file holds no category: "valores default caso de
\* erro" of compute_kpis, "fallback hardcore" of kpis_resumo
ValorDefault == Num(0)

\* read_excel, the normalised column names, to_datetime and astype(str) of one
\* file, as both KPI entry points do them: the frame, or the exception
KpiFrame(file, metric) ==
    IF ~file.exists THEN Raise("FileNotFoundError")
    ELSE IF "data" \notin df_columns(file) THEN Raise("KeyError")
    ELSE IF to_datetime_Data_raises(file) THEN Raise("ValueError")
    ELSE IF "linha" \notin df_columns(file) THEN Raise("KeyError")
    ELSE [raised |-> FALSE,
          frame |-> [i \in 1..Len(file.rows) |->
                        [idx |-> i,
                         Data |-> to_datetime(file.rows[i].data),
                         Linha |-> astype_str(file.rows[i].linha),
                         val |-> file.rows[i][metric]]]]

\* the orders sort_values may return for a file's KPI frame
KpiSortOrders(file, metric) ==
    LET f == KpiFrame(file, metric)
    IN IF f.raised THEN {<<>>} ELSE sort_values(f.frame)

\* ultimos = df.sort_values("Data").groupby("Linha").tail(1), sort_values
\* having returned the order p
Ultimos(frame, p) == groupby_tail1(Reorder(frame, p))

\* ultimos[ultimos["Linha"] == linha][metric].iloc[0]
ValorDaLinha(ultimos, linha) == filter_linha(ultimos, linha)[1].val

\* one metric's half of the KPI computation: the SMT and IM values
KpiLado(file, metric, p) ==
    LET f == KpiFrame(file, metric)
    IN IF f.raised THEN f
       ELSE LET ultimos == Ultimos(f.frame, p)
                linhas == sorted_str({ultimos[i].Linha : i \in 1..Len(ultimos)})
            IN IF linhas = <<>>
               THEN [raised |-> FALSE, smt |-> ValorDefault, im |-> ValorDefault,
                     ultimos |-> ultimos, linhas |-> linhas]
               ELSE IF metric \notin df_columns(file) THEN Raise("KeyError")
               ELSE [raised |-> FALSE,
                     smt |-> ValorDaLinha(ultimos, linhas[1]),
                     im |-> IF Len(linhas) > 1
                            THEN ValorDaLinha(ultimos, linhas[2])
                            ELSE ValorDaLinha(ultimos, linhas[1]),
                     ultimos |-> ultimos, linhas |-> linhas]

Cards(oee_smt_val, oee_im_val, teep_smt_val, teep_im_val) ==
    <<formata_kpi("OEE SMT", oee_smt_val), formata_kpi("OEE IM", oee_im_val),
      formata_kpi("TEEP SMT", teep_smt_val), formata_kpi("TEEP IM", teep_im_val)>>

\* GET /api/kpis-resumo
kpis_resumo(o, t, po, pt) ==
    LET a == KpiLado(o, "oee", po)
        b == KpiLado(t, "teep", pt)
    IN IF a.raised THEN [raised |-> TRUE, exc |-> a.exc, kpis |-> <<>>,
                         oee_lado |-> a, teep_lado |-> NotReached]
       ELSE IF b.raised THEN [raised |-> TRUE, exc |-> b.exc, kpis |-> <<>>,
                              oee_lado |-> a, teep_lado |-> b]
       ELSE [raised |-> FALSE, exc |-> "",
             kpis |-> Cards(a.smt, a.im, b.smt, b.im),
             oee_lado |-> a, teep_lado |-> b]

\* a defect C22_SameCards has to detect: the IM values of compute_kpis are
\* copies of the SMT values also when a second category exists
compute_kpis_ImCopiesSmt(o, t, po, pt) ==
    LET a == KpiLado(o, "oee", po)
        b == KpiLado(t, "teep", pt)
    IN IF a.raised THEN [raised |-> FALSE, exc |-> "",
                         kpis |-> Cards(ValorDefault, ValorDefault, ValorDefault, ValorDefault),
                         oee_lado |-> a, teep_lado |-> NotReached]
       ELSE IF b.raised THEN [raised |-> FALSE, exc |-> "",
                              kpis |-> Cards(a.smt, a.smt, ValorDefault, ValorDefault),
                              oee_lado |-> a, teep_lado |-> b]
       ELSE [raised |-> FALSE, exc |-> "",
             kpis |-> Cards(a.smt, a.smt, b.smt, b.smt),
             oee_lado |-> a, teep_lado |-> b]

\* compute_kpis(base_dir): the values start at 0.0, the two files are read
\* inside one try, and "except Exception: pass" keeps what was assigned
compute_kpis(o, t, po, pt) ==
    LET a == KpiLado(o, "oee", po)
        b == KpiLado(t, "teep", pt)
    IN IF a.raised THEN [raised |-> FALSE, exc |-> "",
                         kpis |-> Cards(ValorDefault, ValorDefault, ValorDefault, ValorDefault),
                         oee_lado |-> a, teep_lado |-> NotReached]
       ELSE IF b.raised THEN [raised |-> FALSE, exc |-> "",
                              kpis |-> Cards(a.smt, a.im, ValorDefault, ValorDefault),
                              oee_lado |-> a, teep_lado |-> b]
       ELSE [raised |-> FALSE, exc |-> "",
             kpis |-> Cards(a.smt, a.im, b.smt, b.im),
             oee_lado |-> a, teep_lado |-> b]

(***************************************************************************)
(* The monthly charts                                                      *)
(***************************************************************************)
\* the charts' target, a share of 1
meta_oee == 7500
meta_teep == 7500

\* a defect C14_MissingColumns has to detect: only the first missing name is
\* reported
Faltando_First(esperadas, columns) ==
    LET all == SelectSeq(esperadas, LAMBDA c : c \notin columns)
    IN IF all = <<>> THEN <<>> ELSE <<all[1]>>

\* [c for c in esperadas if c not in df.columns]
Faltando(esperadas, columns) == SelectSeq(esperadas, LAMBDA c : c \notin columns)

\* the linha argument of a figure builder: None, or a str
SemLinha == [none |-> TRUE, s |-> <<>>]
ALinha(s) == [none |-> FALSE, s |-> s]

\* the frame after rename, to_datetime, astype(str) and the optional filter
ChartFrame(file, linha) ==
    LET df == [i \in 1..Len(file.rows) |->
                  [idx |-> i,
                   Data |-> to_datetime(file.rows[i].data),
                   Linha |-> astype_str(file.rows[i].linha),
                   cel |-> file.rows[i]]]
    IN IF linha.none THEN df ELSE filter_linha(df, linha.s)

RECURSIVE SortedInts(_)
SortedInts(S) == IF S = {} THEN <<>> ELSE <<Min(S)>> \o SortedInts(S \ {Min(S)})

\* the keys of groupby("ano_mes"): the months of the dated rows, ascending (a
\* row whose key is NaT is in no group)
ano_meses(df) ==
    SortedInts({to_period_M(df[i].Data.t) : i \in {j \in 1..Len(df) : ~df[j].Data.nat}})

RECURSIVE SumSeq(_)
SumSeq(s) == IF s = <<>> THEN 0 ELSE Head(s).v + SumSeq(Tail(s))

NaNMean == [nan |-> TRUE, num |-> 0, den |-> 1]
Float(x) == [nan |-> FALSE, num |-> x, den |-> 1]

\* a defect C7_MonthlyRollup has to detect: the sum of the month is divided by
\* the number of rows of the whole frame
GroupMean_OverFrame(df, m, col) ==
    LET g == SelectSeq(df, LAMBDA r : ~r.Data.nat /\ to_period_M(r.Data.t) = m)
        vals == SelectSeq([i \in 1..Len(g) |-> g[i].cel[col]], LAMBDA x : ~x.nan)
    IN IF vals = <<>> THEN NaNMean
       ELSE [nan |-> FALSE, num |-> SumSeq(vals), den |-> Len(df)]

\* a defect C17_MissingMetricValues has to detect: a row that lacks the value
\* of one metric is left out of the means of all metrics
GroupMean_DropRows(df, m, col) ==
    LET g == SelectSeq(df, LAMBDA r : /\ ~r.Data.nat /\ to_period_M(r.Data.t) = m
                                      /\ \A c \in DOMAIN r.cel \ {"data", "linha"} :
                                           ~r.cel[c].nan)
        vals == [i \in 1..Len(g) |-> g[i].cel[col]]
    IN IF vals = <<>> THEN NaNMean
       ELSE [nan |-> FALSE, num |-> SumSeq(vals), den |-> Len(vals)]

\* the mean() of one column in the group of month m: NaN values are skipped,
\* a group without a value gives NaN
GroupMean(df, m, col) ==
    LET g == SelectSeq(df, LAMBDA r : ~r.Data.nat /\ to_period_M(r.Data.t) = m)
        vals == SelectSeq([i \in 1..Len(g) |-> g[i].cel[col]], LAMBDA x : ~x.nan)
    IN IF vals = <<>> THEN NaNMean
       ELSE [nan |-> FALSE, num |-> SumSeq(vals), den |-> Len(vals)]

\* Period.strftime("%b/%Y")
MesAbrev ==
    <<"Jan", "Feb", "Mar", "Apr", "May", "Jun",
      "Jul", "Aug", "Sep", "Oct", "Nov", "Dec">>
strftime(m) == MesAbrev[m % 100] \o "/" \o ToString(m \div 100)

\* column * 100
Times100(x) == [x EXCEPT !.num = @ * 100]

\* df.assign(ano_mes=...).groupby("ano_mes")[cols].mean().reset_index(), with
\* the mes_label and the percentages added when the frame is not empty
MonthlyFrame(df, cols) ==
    LET ms == ano_meses(df)
    IN [k \in 1..Len(ms) |->
           [ano_mes |-> ms[k],
            mes_label |-> strftime(ms[k]),
            pct |-> [c \in cols |-> Times100(GroupMean(df, ms[k], c))]]]

\* a defect C9_EmptyResultPlaceholder has to detect: the test for an empty
\* monthly frame never succeeds
empty_Never(df_mes) == FALSE

\* DataFrame.empty
empty(df_mes) == df_mes = <<>>

\* go.Figure() with one annotation and no trace
AnnotationFig(text, faltando) ==
    [data |-> <<>>, annotations |-> <<[text |-> text, faltando |-> faltando]>>,
     title |-> [text |-> "", linha |-> <<>>]]

Labels(df_mes) == [k \in 1..Len(df_mes) |-> df_mes[k].mes_label]
Column(df_mes, c) == [k \in 1..Len(df_mes) |-> df_mes[k].pct[c]]
Bar(name, x, y) == [type |-> "bar", mode |-> "", name |-> name, x |-> x, y |-> y]
Scatter(name, mode, x, y) ==
    [type |-> "scatter", mode |-> mode, name |-> name, x |-> x, y |-> y]

\* a defect C18_TargetOverlay has to detect: the target is drawn as one point
TargetTrace_OnePoint(meta_0a1, df_mes) ==
    LET meta_pct == meta_0a1 * 100
    IN Scatter("Target " \o Fmt0(meta_pct) \o "%", "lines", Labels(df_mes),
               <<Float(meta_pct)>>)

\* [meta_pct] * len(df_mes), name f"Target {meta_pct:.0f}%"
TargetTrace(meta_0a1, df_mes) ==
    LET meta_pct == meta_0a1 * 100
    IN Scatter("Target " \o Fmt0(meta_pct) \o "%", "lines", Labels(df_mes),
               [k \in 1..Len(df_mes) |-> Float(meta_pct)])

FigOee(df_mes, titulo) ==
    [data |-> <<Bar("OEE", Labels(df_mes), Column(df_mes, "oee")),
                Scatter("Tendencia", "lines+markers", Labels(df_mes),
                        Column(df_mes, "oee")),
                TargetTrace(meta_oee, df_mes)>>,
     annotations |-> <<>>,
     title |-> titulo]

FigTeep(df_mes, titulo) ==
    [data |-> <<Bar("Utilizacao", Labels(df_mes), Column(df_mes, "utilizacao")),
                Bar("TEEP", Labels(df_mes), Column(df_mes, "teep")),
                Scatter("Tendencia TEEP", "lines+markers", Labels(df_mes),
                        Column(df_mes, "teep")),
                TargetTrace(meta_teep, df_mes)>>,
     annotations |-> <<>>,
     title |-> titulo]

Returned(fig, df_mes) ==
    [raised |-> FALSE, exc |-> "", fig |-> fig, df_mes |-> df_mes]

\* create_fig_oee_mensal(base_dir, linha): the figure, and the monthly frame
\* it was drawn from
create_fig_oee_mensal(file, linha) ==
    IF ~file.exists
    THEN Returned(AnnotationFig("Arquivo oee.xlsx nao encontrado", <<>>), <<>>)
    ELSE IF Faltando(esperadas_oee, df_columns(file)) # <<>>
    THEN Returned(AnnotationFig("Colunas faltando no Excel OEE",
                                Faltando(esperadas_oee, df_columns(file))), <<>>)
    ELSE IF to_datetime_Data_raises(file)
    THEN [raised |-> TRUE, exc |-> "ValueError",
          fig |-> AnnotationFig("", <<>>), df_mes |-> <<>>]
    ELSE LET df_mes == MonthlyFrame(ChartFrame(file, linha), {"oee"})
         IN IF empty(df_mes)
            THEN Returned(AnnotationFig("Sem dados de OEE para plotar", <<>>), <<>>)
            ELSE Returned(FigOee(df_mes,
                                 IF linha.none
                                 THEN [text |-> "IM OEE Mensal da Planta", linha |-> <<>>]
                                 ELSE [text |-> "OEE Mensal - ", linha |-> linha.s]),
                          df_mes)

create_fig_teep_mensal(file, linha) ==
    IF ~file.exists
    THEN Returned(AnnotationFig("Arquivo teep.xlsx nao encontrado", <<>>), <<>>)
    ELSE IF Faltando(esperadas_teep, df_columns(file)) # <<>>
    THEN Returned(AnnotationFig("Colunas faltando no Excel TEEP",
                                Faltando(esperadas_teep, df_columns(file))), <<>>)
    ELSE IF to_datetime_Data_raises(file)
    THEN [raised |-> TRUE, exc |-> "ValueError",
          fig |-> AnnotationFig("", <<>>), df_mes |-> <<>>]
    ELSE LET df_mes == MonthlyFrame(ChartFrame(file, linha), {"utilizacao", "teep"})
         IN IF empty(df_mes)
            THEN Returned(AnnotationFig("Sem dados de TEEP/Utilizacao para plotar", <<>>),
                          <<>>)
            ELSE Returned(FigTeep(df_mes,
                                  IF linha.none
                                  THEN [text |-> "TEEP Mensal IM - Utilizacao x TEEP",
                                        linha |-> <<>>]
                                  ELSE [text |-> "TEEP Mensal - ", linha |-> linha.s]),
                          df_mes)

\* HTMLResponse: a <h1> message, or the page pio.to_html makes of a figure
\* (html = "plotly"); fig and df_mes are the handler's locals
HTMLResponse(h1, status_code, exc) ==
    [raised |-> FALSE, exc |-> exc, faltando |-> <<>>, html |-> h1,
     status_code |-> status_code, fig |-> AnnotationFig("", <<>>), df_mes |-> <<>>]
HTMLFigure(fig, df_mes) ==
    [raised |-> FALSE, exc |-> "", faltando |-> <<>>, html |-> "plotly",
     status_code |-> 200, fig |-> fig, df_mes |-> df_mes]
\* the page the except clause makes of ValueError("Colunas faltando no Excel
\* ...: {faltando}. ..."): the <pre> element shows the exception, and in it
\* the missing names
HTMLColunasFaltando(h1, faltando) ==
    [HTMLResponse(h1, 500, "ValueError") EXCEPT !.faltando = faltando]

\* GET /dashboards/grafico9_oee_diario.html
grafico9_oee_diario(file) ==
    IF ~file.exists THEN HTMLResponse("Arquivo oee.xlsx nao encontrado", 500, "")
    ELSE IF Faltando(esperadas_oee, df_columns(file)) # <<>>
    THEN HTMLColunasFaltando("Erro ao gerar grafico de OEE",
                             Faltando(esperadas_oee, df_columns(file)))
    ELSE IF to_datetime_Data_raises(file)
    THEN HTMLResponse("Erro ao gerar grafico de OEE", 500, "ValueError")
    ELSE LET df_mes == MonthlyFrame(ChartFrame(file, SemLinha), {"oee"})
         IN IF empty(df_mes)
            THEN HTMLResponse("Sem dados de OEE para plotar", 200, "")
            ELSE HTMLFigure(FigOee(df_mes, [text |-> "IM OEE Mensal da Planta",
                                            linha |-> <<>>]), df_mes)

\* GET /dashboards/grafico8_teep_utilizacao.html
grafico8_teep_utilizacao(file) ==
    IF ~file.exists THEN HTMLResponse("Arquivo teep.xlsx nao encontrado", 500, "")
    ELSE IF Faltando(esperadas_teep, df_columns(file)) # <<>>
    THEN HTMLColunasFaltando("Erro ao gerar grafico de TEEP",
                             Faltando(esperadas_teep, df_columns(file)))
    ELSE IF to_datetime_Data_raises(file)
    THEN HTMLResponse("Erro ao gerar grafico de TEEP", 500, "ValueError")
    ELSE LET df_mes == MonthlyFrame(ChartFrame(file, SemLinha), {"utilizacao", "teep"})
         IN IF empty(df_mes)
            THEN HTMLResponse("Sem dados de TEEP/Utilizacao para plotar", 200, "")
            ELSE HTMLFigure(FigTeep(df_mes, [text |-> "TEEP Mensal IM - Utilizacao x TEEP",
                                             linha |-> <<>>]), df_mes)

(***************************************************************************)
(* The files: what the directory of main.py holds is not under the         *)
(* program's control. Every change of a file makes the last response a     *)
(* thing of the past (resp is reset).                                      *)
(***************************************************************************)
NoResp == [endpoint |-> "none"]
\* no Dash application was created
NoLayout == [linha_options |-> <<>>, kpi_cards |-> <<>>]

TotalRows == Len(oee.rows) + Len(teep.rows)

\* the header row that names the columns c of esperadas as the code does
Colunas(esperadas) == [k \in 1..Len(esperadas) |-> StrLit(esperadas[k])]

\* a workbook with a header row and no data rows; c = "" keeps every expected
\* column, another c leaves that column out
NovoArquivo(esperadas, c) ==
    [exists |-> TRUE,
     columns |-> Colunas(SelectSeq(esperadas, LAMBDA e : e # c)),
     rows |-> <<>>]

GravarOee(c) ==
    /\ ~oee.exists
    /\ oee' = NovoArquivo(esperadas_oee, c)
    /\ resp' = NoResp
    /\ UNCHANGED <<teep, layout>>

GravarTeep(c) ==
    /\ ~teep.exists
    /\ teep' = NovoArquivo(esperadas_teep, c)
    /\ resp' = NoResp
    /\ UNCHANGED <<oee, layout>>

\* a header text in capitals, with a capital initial, between blanks
str_upper(s) == [s EXCEPT !.caixa = "upper"]
str_title(s) == [s EXCEPT !.caixa = "title"]
BlankBefore(s) == [s EXCEPT !.esq = @ + 1]
BlankAfter(s) == [s EXCEPT !.dir = @ + 1]
Padded(s) == BlankBefore(BlankAfter(s))

\* a workbook with the header row h and no data rows
GravarOeeCabecalho(h) ==
    /\ ~oee.exists
    /\ oee' = [exists |-> TRUE, columns |-> h, rows |-> <<>>]
    /\ resp' = NoResp
    /\ UNCHANGED <<teep, layout>>

GravarTeepCabecalho(h) ==
    /\ ~teep.exists
    /\ teep' = [exists |-> TRUE, columns |-> h, rows |-> <<>>]
    /\ resp' = NoResp
    /\ UNCHANGED <<oee, layout>>

ApagarOee ==
    /\ oee.exists
    /\ oee' = ArquivoAusente
    /\ resp' = NoResp
    /\ UNCHANGED <<teep, layout>>

ApagarTeep ==
    /\ teep.exists
    /\ teep' = ArquivoAusente
    /\ resp' = NoResp
    /\ UNCHANGED <<oee, layout>>

\* a row is appended to a workbook; one whose header row is shorter than the
\* expected columns are many holds one row at most
PodeAcrescentar(file, esperadas) ==
    /\ file.exists
    /\ TotalRows < MaxRows
    /\ (Len(file.columns) < Len(esperadas) => file.rows = <<>>)

AcrescentarOee(row) ==
    /\ PodeAcrescentar(oee, esperadas_oee)
    /\ oee' = [oee EXCEPT !.rows = Append(@, row)]
    /\ resp' = NoResp
    /\ UNCHANGED <<teep, layout>>

AcrescentarTeep(row) ==
    /\ PodeAcrescentar(teep, esperadas_teep)
    /\ teep' = [teep EXCEPT !.rows = Append(@, row)]
    /\ resp' = NoResp
    /\ UNCHANGED <<oee, layout>>

(***************************************************************************)
(* SpecKpi: the two KPI entry points over changing files                   *)
(***************************************************************************)
\* oee.xlsx rows: two dates or no date, three lines ("L1", "L2" and 10, the
\* third with one value), and one row whose date cell is a text
L1 == CelStr(<<76, 49>>)
L2 == CelStr(<<76, 50>>)
KpiDataCells == {CelData(20240105), CelData(20240210), CelVazia}
KpiOeeRows ==
    [data : KpiDataCells, linha : {L1, L2}, oee : {Num(7000), Num(9000)}]
    \cup [data : KpiDataCells, linha : {CelInt(10)}, oee : {Num(9000)}]
    \cup {[data |-> CelTexto, linha |-> L1, oee |-> Num(7000)]}
KpiTeepRows ==
    [data : {CelData(20240105), CelData(20240210)}, linha : {L1, L2},
     utilizacao : {Num(8000)}, teep : {Num(6000), Num(8000)}]
    \cup {[data |-> c, linha |-> L1, utilizacao |-> Num(8000), teep |-> Num(8000)] :
            c \in {CelVazia, CelTexto}}

KpisResumo ==
    /\ \E po \in KpiSortOrders(oee, "oee"), pt \in KpiSortOrders(teep, "teep") :
         resp' = [endpoint |-> "kpis_resumo"] @@ kpis_resumo(oee, teep, po, pt)
    /\ UNCHANGED <<oee, teep, layout>>

ComputeKpis ==
    /\ \E po \in KpiSortOrders(oee, "oee"), pt \in KpiSortOrders(teep, "teep") :
         resp' = [endpoint |-> "compute_kpis"] @@ compute_kpis(oee, teep, po, pt)
    /\ UNCHANGED <<oee, teep, layout>>

InitKpi ==
    /\ oee = ArquivoAusente
    /\ teep = ArquivoAusente
    /\ resp = NoResp
    /\ layout = NoLayout

NextKpi ==
    \/ \E c \in {"", "oee"} : GravarOee(c)
    \/ \E c \in {"", "data"} : GravarTeep(c)
    \/ ApagarOee
    \/ ApagarTeep
    \/ \E row \in KpiOeeRows : AcrescentarOee(row)
    \/ \E row \in KpiTeepRows : AcrescentarTeep(row)
    \/ KpisResumo
    \/ ComputeKpis

SpecKpi == InitKpi /\ [][NextKpi]_vars

(***************************************************************************)
(* What the claims about the KPI cards speak of, read from the files       *)
(***************************************************************************)
IsKpiResp == resp.endpoint \in {"kpis_resumo", "compute_kpis"}

Categorias(file) == {astype_str(file.rows[i].linha) : i \in 1..Len(file.rows)}
RowsOf(file, c) == {i \in 1..Len(file.rows) : astype_str(file.rows[i].linha) = c}
Dated(file, c) == {i \in RowsOf(file, c) : file.rows[i].data.tipo = "data"}
AtMaxData(file, c) ==
    {i \in Dated(file, c) :
        \A j \in Dated(file, c) : file.rows[j].data.valor <= file.rows[i].data.valor}
\* the values a half of the KPI computation selected for category c
SelVals(lado, c) ==
    {lado.ultimos[k].val : k \in {n \in 1..Len(lado.ultimos) : lado.ultimos[n].Linha = c}}

\* the file is read and parsed without an error
Loads(file) ==
    /\ file.exists
    /\ {"data", "linha"} \subseteq df_columns(file)
    /\ ~to_datetime_Data_raises(file)

\* C1, for one file: the value selected for a category that has a dated row is
\* the value of a row of that category at the category's maximum date
LastObservation(file, metric, lado) ==
    ~lado.raised =>
        \A c \in Categorias(file) :
            Dated(file, c) # {} =>
                /\ SelVals(lado, c) # {}
                /\ SelVals(lado, c) \subseteq {file.rows[i][metric] : i \in AtMaxData(file, c)}

\* C1 (as claimed): whatever a KPI entry point returns, for every category of
\* either file the value it selected is that of a row of the category at the
\* category's maximum date. The code breaks it through the rows whose date
\* cell is empty (C23): sort_values puts them last and tail(1) takes them.
C1_LastObservationSelected ==
    (IsKpiResp /\ ~resp.raised) =>
        /\ LastObservation(oee, "oee", resp.oee_lado)
        /\ LastObservation(teep, "teep", resp.teep_lado)

\* no two rows of one category have the same date cell (two empty cells count
\* as the same)
NoSharedDate(file) ==
    \A i, j \in 1..Len(file.rows) :
        (i # j /\ astype_str(file.rows[i].linha) = astype_str(file.rows[j].linha))
            => file.rows[i].data # file.rows[j].data

\* the categories in string order, as a set of positions: c is the n-th
NthCategoria(file, n) ==
    {c \in Categorias(file) :
        Cardinality({d \in Categorias(file) : StrLess(d, c)}) = n - 1}

\* the value of category c's row at its maximum date (one row, when no two
\* share a date)
LatestVal(file, metric, c) ==
    file.rows[CHOOSE i \in AtMaxData(file, c) : TRUE][metric]

\* C2, for one file: the SMT value is the latest value of the smallest
\* category and the IM value that of the second smallest
RolesAssigned(file, metric, lado) ==
    /\ \A c \in NthCategoria(file, 1) :
           Dated(file, c) # {} => lado.smt = LatestVal(file, metric, c)
    /\ \A c \in NthCategoria(file, 2) :
           Dated(file, c) # {} => lado.im = LatestVal(file, metric, c)

Permute(file, pi) == [file EXCEPT !.rows = Reorder(file.rows, pi)]

KpiEndpoint(name, o, t, po, pt) ==
    IF name = "kpis_resumo" THEN kpis_resumo(o, t, po, pt) ELSE compute_kpis(o, t, po, pt)

\* the cards are the same for every order of the rows of both files
PermutationInvariant ==
    \A pi \in Perms(Len(oee.rows)), sigma \in Perms(Len(teep.rows)) :
        \A po \in KpiSortOrders(Permute(oee, pi), "oee"),
           pt \in KpiSortOrders(Permute(teep, sigma), "teep") :
            KpiEndpoint(resp.endpoint, Permute(oee, pi), Permute(teep, sigma), po, pt).kpis
                = resp.kpis

\* C2 (as claimed): when no two rows of a category share a date, the SMT card
\* shows the latest value of the smallest category (string order), the IM card
\* that of the second smallest, and every permutation of the rows gives the
\* same cards. The role assignment and the permutation invariance hold; the
\* value shown is not the latest one when the category has a row with an empty
\* date cell (C23).
C2_RoleAssignment ==
    (/\ IsKpiResp /\ ~resp.raised
     /\ ~resp.oee_lado.raised /\ ~resp.teep_lado.raised
     /\ NoSharedDate(oee) /\ NoSharedDate(teep)) =>
        /\ RolesAssigned(oee, "oee", resp.oee_lado)
        /\ RolesAssigned(teep, "teep", resp.teep_lado)
        /\ resp.kpis = Cards(resp.oee_lado.smt, resp.oee_lado.im,
                             resp.teep_lado.smt, resp.teep_lado.im)
        /\ PermutationInvariant

\* C3 (as claimed): a KPI entry point returns the list of four cards and never
\* raises. kpis_resumo has no try/except and no file.exists test.
C3_KpiNeverRaises ==
    IsKpiResp => (~resp.raised /\ Len(resp.kpis) = 4)

\* C4 (as claimed): when loading either file fails, compute_kpis returns four
\* cards of value 0,0% with is_positive false. The OEE values assigned before
\* the TEEP file failed are kept.
C4_FailSoftZeroing ==
    (resp.endpoint = "compute_kpis" /\ (~Loads(oee) \/ ~Loads(teep))) =>
        \A k \in 1..4 : resp.kpis[k].value = "0,0%" /\ ~resp.kpis[k].is_positive

\* C5, for one file: of a category whose rows all have a date and whose
\* maximum date is carried by several rows, the last of these rows is selected
TieBreak(file, metric, lado) ==
    ~lado.raised =>
        \A c \in Categorias(file) :
            (RowsOf(file, c) = Dated(file, c) /\ Cardinality(AtMaxData(file, c)) >= 2)
                => SelVals(lado, c) = {file.rows[Max(AtMaxData(file, c))][metric]}

\* C5 (as claimed): rows of one category at the same maximum date: the one
\* that occurs last in the file is selected. sort_values runs quicksort, which
\* is not stable, so any of them may be.
C5_TieBreakLastOccurring ==
    (IsKpiResp /\ ~resp.raised) =>
        /\ TieBreak(oee, "oee", resp.oee_lado)
        /\ TieBreak(teep, "teep", resp.teep_lado)

(***************************************************************************)
(* SpecChart: the four monthly chart entry points over changing files.     *)
(* One of the two workbooks exists at a time. The cells of the columns     *)
(* disponibilidade, performance and qualidade are read by no handler and   *)
(* are left out of the rows.                                               *)
(***************************************************************************)
ChartOeeRows ==
    [data : {CelData(20240105), CelData(20240120), CelData(20240210)},
     linha : {L1, L2}, oee : {Num(7000), Num(9000)}]
    \cup {[data |-> CelVazia, linha |-> L1, oee |-> Num(9000)],
          [data |-> CelTexto, linha |-> L2, oee |-> Num(9000)],
          [data |-> CelData(20240105), linha |-> L1, oee |-> NaN]}
ChartTeepRows ==
    {[data |-> d, linha |-> l, utilizacao |-> m[1], teep |-> m[2]] :
        d \in {CelData(20240105), CelData(20240210)}, l \in {L1, L2},
        m \in {<<Num(5000), Num(8000)>>, <<NaN, Num(8000)>>, <<Num(5000), Num(6000)>>}}
    \cup {[data |-> c, linha |-> L1, utilizacao |-> Num(5000), teep |-> Num(8000)] :
            c \in {CelVazia, CelTexto}}
ChartLinhas == {SemLinha, ALinha(L1.s)}
\* header rows that lack several columns: three names only, two names written
\* " Data " and "LINHA", no header at all; "TEEP " alone, and all but "linha"
ChartOeeCabecalhos ==
    {<<StrLit("data"), StrLit("linha"), StrLit("oee")>>,
     <<Padded(str_title(StrLit("data"))), str_upper(StrLit("linha"))>>,
     <<>>}
ChartTeepCabecalhos ==
    {<<BlankAfter(str_upper(StrLit("teep")))>>,
     <<BlankBefore(str_title(StrLit("data"))), StrLit("utilizacao"),
       StrLit("teep")>>}

CreateFigOeeMensal(linha) ==
    /\ resp' = [endpoint |-> "create_fig_oee_mensal", linha |-> linha]
               @@ create_fig_oee_mensal(oee, linha)
    /\ UNCHANGED <<oee, teep, layout>>

CreateFigTeepMensal(linha) ==
    /\ resp' = [endpoint |-> "create_fig_teep_mensal", linha |-> linha]
               @@ create_fig_teep_mensal(teep, linha)
    /\ UNCHANGED <<oee, teep, layout>>

Grafico9OeeDiario ==
    /\ resp' = [endpoint |-> "grafico9_oee_diario", linha |-> SemLinha]
               @@ grafico9_oee_diario(oee)
    /\ UNCHANGED <<oee, teep, layout>>

Grafico8TeepUtilizacao ==
    /\ resp' = [endpoint |-> "grafico8_teep_utilizacao", linha |-> SemLinha]
               @@ grafico8_teep_utilizacao(teep)
    /\ UNCHANGED <<oee, teep, layout>>

InitChart ==
    /\ oee = ArquivoAusente
    /\ teep = ArquivoAusente
    /\ resp = NoResp
    /\ layout = NoLayout

NextChart ==
    \/ \E c \in {"", "linha"} : ~teep.exists /\ GravarOee(c)
    \/ \E c \in {"", "utilizacao"} : ~oee.exists /\ GravarTeep(c)
    \/ \E h \in ChartOeeCabecalhos : ~teep.exists /\ GravarOeeCabecalho(h)
    \/ \E h \in ChartTeepCabecalhos : ~oee.exists /\ GravarTeepCabecalho(h)
    \/ ApagarOee
    \/ ApagarTeep
    \/ \E row \in ChartOeeRows : AcrescentarOee(row)
    \/ \E row \in ChartTeepRows : AcrescentarTeep(row)
    \/ \E linha \in ChartLinhas : CreateFigOeeMensal(linha)
    \/ \E linha \in ChartLinhas : CreateFigTeepMensal(linha)
    \/ Grafico9OeeDiario
    \/ Grafico8TeepUtilizacao

SpecChart == InitChart /\ [][NextChart]_vars

(***************************************************************************)
(* What the claims about the monthly charts speak of, read from the files  *)
(***************************************************************************)
IsChartResp ==
    resp.endpoint \in {"create_fig_oee_mensal", "create_fig_teep_mensal",
                       "grafico9_oee_diario", "grafico8_teep_utilizacao"}
IsFigBuilderResp ==
    resp.endpoint \in {"create_fig_oee_mensal", "create_fig_teep_mensal"}
IsOeeChart == resp.endpoint \in {"create_fig_oee_mensal", "grafico9_oee_diario"}
ChartFile == IF IsOeeChart THEN oee ELSE teep
ChartMetrics == IF IsOeeChart THEN {"oee"} ELSE {"utilizacao", "teep"}
ChartEsperadas == IF IsOeeChart THEN esperadas_oee ELSE esperadas_teep
ChartRowDomain == IF IsOeeChart THEN ChartOeeRows ELSE ChartTeepRows

\* the workbook gives a table: it exists, has every required column, and
\* every date cell is a date or empty
TableLoads(file, esperadas) ==
    /\ file.exists
    /\ Range(esperadas) \subseteq df_columns(file)
    /\ ~to_datetime_Data_raises(file)

CategoriaDe(row) == IF row.linha.tipo = "int" THEN Digits(row.linha.n) ELSE row.linha.s
RowsAfterFilter(file, linha) ==
    {i \in 1..Len(file.rows) : linha.none \/ CategoriaDe(file.rows[i]) = linha.s}
DatedIn(file, linha) ==
    {i \in RowsAfterFilter(file, linha) : file.rows[i].data.tipo = "data"}
MonthOf(file, i) == file.rows[i].data.valor \div 100
MonthsIn(file, linha) == {MonthOf(file, i) : i \in DatedIn(file, linha)}
\* the rows of month m that have a value of the metric
ValuedIn(file, linha, m, col) ==
    {i \in DatedIn(file, linha) : MonthOf(file, i) = m /\ ~file.rows[i][col].nan}

RECURSIVE SumOf(_, _, _)
SumOf(file, S, col) ==
    IF S = {} THEN 0
    ELSE LET i == CHOOSE j \in S : TRUE
         IN file.rows[i][col].v + SumOf(file, S \ {i}, col)

\* x is 100 times the arithmetic mean of the metric over the rows S
IsMeanTimes100(x, file, S, col) ==
    IF S = {} THEN x.nan
    ELSE ~x.nan /\ x.num * Cardinality(S) = 100 * SumOf(file, S, col) * x.den

MonthlySeriesOk(file, linha, cols, df_mes) ==
    /\ Len(df_mes) = Cardinality(MonthsIn(file, linha))
    /\ \A k \in 1..Len(df_mes) : df_mes[k].ano_mes \in MonthsIn(file, linha)
    /\ \A k, l \in 1..Len(df_mes) : k < l => df_mes[k].ano_mes < df_mes[l].ano_mes
    /\ \A k \in 1..Len(df_mes) : \A c \in cols :
         IsMeanTimes100(df_mes[k].pct[c], file,
                        ValuedIn(file, linha, df_mes[k].ano_mes, c), c)

BarColumn(name) ==
    IF name = "OEE" THEN "oee" ELSE IF name = "TEEP" THEN "teep" ELSE "utilizacao"
\* the figure has one bar series per metric, each with the monthly values
BarsShow(fig, cols, df_mes) ==
    /\ {BarColumn(fig.data[n].name) : n \in {j \in 1..Len(fig.data) : fig.data[j].type = "bar"}}
         = cols
    /\ \A n \in 1..Len(fig.data) :
         /\ Len(fig.data[n].x) = Len(df_mes)
         /\ fig.data[n].type = "bar" =>
              fig.data[n].y = [k \in 1..Len(df_mes) |-> df_mes[k].pct[BarColumn(fig.data[n].name)]]

\* C7. Monthly rollup: when the table has a dated row, the chart of the whole
\* plant is drawn from a monthly series with exactly one entry per distinct
\* year+month of the rows, in strictly ascending order, each value 100 times
\* the arithmetic mean of the metric over the rows of that month (the rows
\* that have a value of the metric).
C7_MonthlyRollup ==
    (/\ IsChartResp /\ resp.linha.none
     /\ TableLoads(ChartFile, ChartEsperadas)
     /\ DatedIn(ChartFile, SemLinha) # {}) =>
        /\ ~resp.raised
        /\ MonthlySeriesOk(ChartFile, SemLinha, ChartMetrics, resp.df_mes)
        /\ BarsShow(resp.fig, ChartMetrics, resp.df_mes)

\* two rows of January (70 % and 90 %) and one of February: two entries, the
\* first the mean of the two
C7_Witness ==
    /\ resp.endpoint = "grafico9_oee_diario"
    /\ Len(oee.rows) = 3
    /\ \E i, j \in 1..3 : /\ oee.rows[i].data = CelData(20240105)
                          /\ oee.rows[j].data = CelData(20240120)
    /\ Len(resp.df_mes) = 2
    /\ resp.df_mes[1].pct["oee"] = [nan |-> FALSE, num |-> 1600000, den |-> 2]
    /\ resp.df_mes[2].ano_mes = 202402

\* the files that differ from file in rows of other categories than c: one
\* such row removed, one changed, or one added
OtherCategoryEdits(file, c, domain) ==
    LET others == {i \in 1..Len(file.rows) : CategoriaDe(file.rows[i]) # c}
        rows == {r \in domain : CategoriaDe(r) # c /\ r.data.tipo # "texto"}
    IN {[file EXCEPT !.rows = SelectIdx(@, (1..Len(@)) \ {i})] : i \in others}
       \cup {[file EXCEPT !.rows[i] = r] : i \in others, r \in rows}
       \cup {[file EXCEPT !.rows = Append(@, r)] : r \in rows}

FigBuilder(file, linha) ==
    IF IsOeeChart THEN create_fig_oee_mensal(file, linha)
    ELSE create_fig_teep_mensal(file, linha)

SemDadosText ==
    IF IsOeeChart THEN "Sem dados de OEE para plotar"
    ELSE "Sem dados de TEEP/Utilizacao para plotar"
\* the response is the "Sem dados ... para plotar" placeholder: a figure with
\* that annotation and no trace, or the HTML message
IsSemDados ==
    IF IsFigBuilderResp
    THEN /\ resp.fig.data = <<>>
         /\ resp.fig.annotations = <<[text |-> SemDadosText, faltando |-> <<>>]>>
    ELSE resp.html = SemDadosText /\ resp.status_code = 200

\* C9. Empty-result placeholder: when the table has no rows after the
\* category filter (no rows at all, or none of the category), the monthly
\* frame is empty and the entry point returns the "Sem dados ... para
\* plotar" placeholder; and no returned chart has an empty series.
C9_EmptyResultPlaceholder ==
    /\ (/\ IsChartResp
        /\ TableLoads(ChartFile, ChartEsperadas)
        /\ RowsAfterFilter(ChartFile, resp.linha) = {}) =>
           (~resp.raised /\ resp.df_mes = <<>> /\ IsSemDados)
    /\ (IsChartResp /\ ~resp.raised) =>
           \A n \in 1..Len(resp.fig.data) :
               resp.fig.data[n].x # <<>> /\ resp.fig.data[n].y # <<>>

\* the table has rows, none of the category asked for
C9_Witness ==
    /\ IsFigBuilderResp /\ ~resp.linha.none
    /\ TableLoads(ChartFile, ChartEsperadas)
    /\ ChartFile.rows # <<>>
    /\ RowsAfterFilter(ChartFile, resp.linha) = {}
    /\ IsSemDados

(***************************************************************************)
(* The Dash application                                                    *)
(***************************************************************************)
\* the value of the linha dropdown: None, or a str ("ALL" is the option
\* "Todas as linhas")
ValorNone == [none |-> TRUE, s |-> <<>>]
Valor(s) == [none |-> FALSE, s |-> s]
ALL == <<65, 76, 76>>

get_linhas_disponiveis(file) ==
    IF ~file.exists THEN <<>>
    ELSE IF "linha" \notin df_columns(file) THEN <<>>
    ELSE sorted_str({astype_str(file.rows[i].linha) : i \in 1..Len(file.rows)})

make_kpi_card(kpi) ==
    [className |-> IF kpi.is_positive THEN "kpi-card kpi-card-positive"
                   ELSE "kpi-card kpi-card-negative",
     h3 |-> kpi.title,
     value |-> kpi.value,
     meta |-> kpi.meta,
     delta |-> kpi.delta_label \o ": ",
     delta_value |-> kpi.delta_value]

\* create_dash_app(base_dir) with sort_values returning the orders po and pt:
\* the layout, or the exception the first figures raised
create_dash_app(o, t, po, pt) ==
    LET linhas == get_linhas_disponiveis(o)
        kpis_data == compute_kpis(o, t, po, pt).kpis
        fo == create_fig_oee_mensal(o, SemLinha)
        ft == create_fig_teep_mensal(t, SemLinha)
    IN [raised |-> fo.raised \/ ft.raised,
        layout |-> [linha_options |-> <<ALL>> \o linhas,
                    kpi_cards |-> [k \in 1..Len(kpis_data) |-> make_kpi_card(kpis_data[k])],
                    oee_graph |-> fo.fig,
                    teep_graph |-> ft.fig]]

\* the callback of the linha dropdown
atualizar_graficos(o, t, linha_value) ==
    LET linha == IF linha_value.none \/ linha_value.s = ALL
                 THEN SemLinha ELSE ALinha(linha_value.s)
        fo == create_fig_oee_mensal(o, linha)
        ft == create_fig_teep_mensal(t, linha)
    IN [raised |-> fo.raised \/ ft.raised,
        exc |-> IF fo.raised THEN fo.exc ELSE ft.exc,
        linha |-> linha,
        oee_graph |-> fo, teep_graph |-> IF fo.raised THEN NotReached ELSE ft]

(***************************************************************************)
(* SpecDash: the Dash application of main_dash.py, created when the module *)
(* is imported, serving its layout and its callback while the workbooks    *)
(* change.                                                                 *)
(***************************************************************************)
DashOeeRows ==
    {[data |-> CelData(20240105), linha |-> L1, oee |-> Num(7000)],
     [data |-> CelData(20240210), linha |-> L1, oee |-> Num(9000)],
     [data |-> CelData(20240105), linha |-> L2, oee |-> Num(9000)],
     [data |-> CelTexto, linha |-> L2, oee |-> Num(9000)]}
DashTeepRows ==
    {[data |-> CelData(20240105), linha |-> L1, utilizacao |-> Num(5000), teep |-> Num(6000)],
     [data |-> CelData(20240210), linha |-> L1, utilizacao |-> Num(5000), teep |-> Num(8000)],
     [data |-> CelData(20240105), linha |-> L2, utilizacao |-> Num(5000), teep |-> Num(8000)]}
DashValores == {ValorNone, Valor(ALL), Valor(L1.s), Valor(L2.s)}

\* GET /dash/_dash-layout: Dash serialises dash_app.layout
ServeLayout ==
    /\ resp' = [endpoint |-> "layout", raised |-> FALSE, layout |-> layout]
    /\ UNCHANGED <<oee, teep, layout>>

\* POST /dash/_dash-update-component
AtualizarGraficos(linha_value) ==
    /\ resp' = [endpoint |-> "atualizar_graficos", linha_value |-> linha_value]
               @@ atualizar_graficos(oee, teep, linha_value)
    /\ UNCHANGED <<oee, teep, layout>>

\* the workbooks main_dash.py finds when it is imported, and the application
\* it creates (an import that raises leaves no application)
DashInitFiles(esperadas, rows) ==
    {ArquivoAusente, NovoArquivo(esperadas, "")}
    \cup {[NovoArquivo(esperadas, "") EXCEPT !.rows = <<r>>] : r \in rows}

InitDash ==
    /\ oee \in DashInitFiles(esperadas_oee, DashOeeRows)
    /\ teep \in DashInitFiles(esperadas_teep, DashTeepRows)
    /\ \E po \in KpiSortOrders(oee, "oee"), pt \in KpiSortOrders(teep, "teep") :
         /\ ~create_dash_app(oee, teep, po, pt).raised
         /\ layout = create_dash_app(oee, teep, po, pt).layout
    /\ resp = NoResp

NextDash ==
    \/ \E c \in {"", "linha"} : GravarOee(c)
    \/ \E c \in {"", "teep"} : GravarTeep(c)
    \/ ApagarOee
    \/ ApagarTeep
    \/ \E row \in DashOeeRows : AcrescentarOee(row)
    \/ \E row \in DashTeepRows : AcrescentarTeep(row)
    \/ ServeLayout
    \/ \E linha_value \in DashValores : AtualizarGraficos(linha_value)

SpecDash == InitDash /\ [][NextDash]_vars

\* the cards compute_kpis and make_kpi_card make of the workbooks as they are
FreshCards ==
    {[k \in 1..4 |-> make_kpi_card(compute_kpis(oee, teep, po, pt).kpis[k])] :
        po \in KpiSortOrders(oee, "oee"), pt \in KpiSortOrders(teep, "teep")}

\* C6. KPI freshness: the KPI cards the Dash application serves for a
\* request are computed from the contents of oee.xlsx and teep.xlsx at the
\* time of that request.
C6_KpiFreshness ==
    resp.endpoint = "layout" => resp.layout.kpi_cards \in FreshCards

(***************************************************************************)
(* The other chart handlers of main.py. Each reads a workbook of its own;  *)
(* of that workbook the handler's outcome depends on whether it exists,    *)
(* which columns it has, whether it has rows, and whether a cell of its    *)
(* "data" column is a text that is no date. Of these charts the traces of  *)
(* the interactive chart only are modelled, from the rows of its workbook. *)
(***************************************************************************)
PlanilhaAusente ==
    [exists |-> FALSE, columns |-> {}, vazio |-> TRUE, data_texto |-> FALSE]
Planilhas(cols) ==
    {PlanilhaAusente}
    \cup {f \in [exists : {TRUE}, columns : {cols} \cup {cols \ {c} : c \in cols},
                 vazio : BOOLEAN, data_texto : BOOLEAN] :
            f.data_texto => ("data" \in f.columns /\ ~f.vazio)}

\* HTMLResponse(content=pio.to_html(fig)) of a figure with this title
HTMLPage(titulo) ==
    [raised |-> FALSE, exc |-> "", html |-> "plotly", status_code |-> 200,
     title |-> titulo]
HTMLMessage(h1, status_code, exc) ==
    [raised |-> FALSE, exc |-> exc, html |-> h1, status_code |-> status_code,
     title |-> ""]

grafico1_producao_diaria(f) ==
    IF ~f.exists THEN HTMLMessage("Arquivo producao_diaria.xlsx nao encontrado", 500, "")
    ELSE IF "data" \notin f.columns THEN Raise("KeyError")
    ELSE IF f.data_texto THEN Raise("ValueError")
    ELSE IF "total_produzido" \notin f.columns THEN Raise("ValueError")
    ELSE HTMLPage("Producao diaria da fabrica")

grafico2_producao_por_linha(f) ==
    IF ~f.exists THEN HTMLMessage("Arquivo producao_por_linha.xlsx nao encontrado", 500, "")
    ELSE IF {"linha", "producao"} \ f.columns # {} THEN Raise("ValueError")
    ELSE HTMLPage("Producao total por linha")

grafico3_refugo_por_linha(f) ==
    IF ~f.exists THEN HTMLMessage("Arquivo refugo_por_linha.xlsx nao encontrado", 500, "")
    ELSE IF {"linha", "ok", "refugo"} \ f.columns # {} THEN Raise("KeyError")
    ELSE HTMLPage("Producao OK x Refugo por linha")

\* producao_diaria_por_linha.xlsx: whether it is there, the names of its
\* columns (the handler reads them as they are written) and its rows, each
\* with a cell of "data", of "linha" and of "producao"
PlanilhaPorLinhaAusente == [exists |-> FALSE, columns |-> {}, rows |-> <<>>]

\* Series.unique().tolist(): the distinct values in order of first appearance
unique(s) ==
    SelectIdx(s, {i \in 1..Len(s) : \A j \in 1..(i - 1) : s[j] # s[i]})

\* f"Producao diaria - {linha}"
TituloDaLinha(linha) == <<"Producao diaria - ", linha>>

\* a defect C25_InteractiveChart has to detect: a button shows every trace up
\* to its own
visible_of_button_UpTo(n, i) == [k \in 1..n |-> k <= i]

\* visible = [False] * len(linhas); visible[i] = True
visible_of_button(n, i) == [k \in 1..n |-> k = i]

\* the figure of the handler: one trace per line, one button per line
FigInterativo(df) ==
    LET linhas == unique([i \in 1..Len(df) |-> df[i].linha])
        trace(k) ==
            LET df_linha == SelectIdx(df, {i \in 1..Len(df) : df[i].linha = linhas[k]})
            IN [x |-> [i \in 1..Len(df_linha) |-> df_linha[i].data],
                y |-> [i \in 1..Len(df_linha) |-> df_linha[i].producao],
                mode |-> "lines+markers",
                name |-> linhas[k],
                visible |-> (linhas[k] = linhas[1])]
        button(i) ==
            [label |-> linhas[i], method |-> "update",
             args |-> [visible |-> visible_of_button(Len(linhas), i),
                       title |-> TituloDaLinha(linhas[i])]]
    IN [data |-> [k \in 1..Len(linhas) |-> trace(k)],
        layout |-> [title |-> TituloDaLinha(linhas[1]),
                    updatemenus |-> <<[buttons |-> [i \in 1..Len(linhas) |-> button(i)],
                                       showactive |-> TRUE]>>]]

\* the try/except of the handler turns every exception into a page; on a
\* table without rows linhas[0] raises IndexError
producao_por_linha_interativo(f) ==
    IF ~f.exists
    THEN HTMLMessage("Arquivo producao_diaria_por_linha.xlsx nao encontrado na pasta do main.py",
                     500, "")
    ELSE IF "data" \notin f.columns
    THEN HTMLMessage("Erro ao gerar grafico interativo", 500, "KeyError")
    ELSE IF to_datetime_raises(f.rows)
    THEN HTMLMessage("Erro ao gerar grafico interativo", 500, "ValueError")
    ELSE IF "linha" \notin f.columns
    THEN HTMLMessage("Erro ao gerar grafico interativo", 500, "KeyError")
    ELSE IF f.rows # <<>> /\ "producao" \notin f.columns
    THEN HTMLMessage("Erro ao gerar grafico interativo", 500, "KeyError")
    ELSE IF f.rows = <<>>
    THEN HTMLMessage("Erro ao gerar grafico interativo", 500, "IndexError")
    ELSE LET df == [i \in 1..Len(f.rows) |->
                       [data |-> to_datetime(f.rows[i].data),
                        linha |-> astype_str(f.rows[i].linha),
                        producao |-> f.rows[i].producao]]
             fig == FigInterativo(df)
         IN [HTMLPage(fig.layout.title) EXCEPT !.html = fig]

\* Plotly's "update" method, run in the browser when the i-th button of the
\* dropdown is chosen: every trace gets its entry of args[0]["visible"], and
\* the layout the title of args[1]
update_button(fig, i) ==
    LET args == fig.layout.updatemenus[1].buttons[i].args
    IN [fig EXCEPT !.data = [k \in 1..Len(fig.data) |->
                                [fig.data[k] EXCEPT !.visible = args.visible[k]]],
                   !.layout.title = args.title]

grafico4_refugo_por_causa(f) ==
    IF ~f.exists THEN HTMLMessage("Arquivo refugo_por_causa.xlsx nao encontrado", 500, "")
    ELSE IF {"causa", "quantidade"} \ f.columns # {} THEN Raise("ValueError")
    ELSE HTMLPage("Distribuicao do refugo por causa")

\* trendline="ols" fits with statsmodels, which the installation may lack
grafico5_correlacao_temp_defeitos(f, statsmodels) ==
    IF ~f.exists
    THEN HTMLMessage("Arquivo correlacao_temp_defeitos.xlsx nao encontrado", 500, "")
    ELSE IF {"temperatura_forno", "defeitos"} \ f.columns # {} THEN Raise("ValueError")
    ELSE IF ~f.vazio /\ ~statsmodels THEN Raise("ModuleNotFoundError")
    ELSE HTMLPage("Correlacao entre temperatura do forno e defeitos")

grafico6_eficiencia_turno(f) ==
    IF ~f.exists THEN HTMLMessage("Arquivo eficiencia_turno.xlsx nao encontrado", 500, "")
    ELSE IF {"linha", "turno", "eficiencia"} \ f.columns # {} THEN Raise("KeyError")
    ELSE HTMLPage("Eficiencia por linha e turno")

grafico7_oee_velocimetro(f) ==
    IF ~f.exists THEN HTMLMessage("Arquivo oee_velocimetro.xlsx nao encontrado", 500, "")
    ELSE IF "valor" \notin f.columns THEN Raise("KeyError")
    ELSE IF f.vazio THEN Raise("IndexError")
    ELSE HTMLPage("OEE - Eficiencia Global do Equipamento")

(***************************************************************************)
(* SpecHttp: every chart entry point, over the states of its workbook      *)
(***************************************************************************)
HttpOeeRows ==
    {[data |-> CelData(20240105), linha |-> L1, oee |-> Num(9000)],
     [data |-> CelTexto, linha |-> L1, oee |-> Num(9000)]}
HttpTeepRows ==
    {[data |-> CelData(20240105), linha |-> L1, utilizacao |-> Num(5000), teep |-> Num(8000)],
     [data |-> CelTexto, linha |-> L1, utilizacao |-> Num(5000), teep |-> Num(8000)]}

Grafico1ProducaoDiaria ==
    /\ \E f \in Planilhas({"data", "total_produzido"}) :
         resp' = [endpoint |-> "grafico1_producao_diaria", arquivo |-> f]
                 @@ grafico1_producao_diaria(f)
    /\ UNCHANGED <<oee, teep, layout>>
Grafico2ProducaoPorLinha ==
    /\ \E f \in Planilhas({"linha", "producao"}) :
         resp' = [endpoint |-> "grafico2_producao_por_linha", arquivo |-> f]
                 @@ grafico2_producao_por_linha(f)
    /\ UNCHANGED <<oee, teep, layout>>
Grafico3RefugoPorLinha ==
    /\ \E f \in Planilhas({"linha", "ok", "refugo"}) :
         resp' = [endpoint |-> "grafico3_refugo_por_linha", arquivo |-> f]
                 @@ grafico3_refugo_por_linha(f)
    /\ UNCHANGED <<oee, teep, layout>>
\* the workbooks of the interactive chart: absent, a column absent, no rows,
\* one row with a date, one row whose date is a text
HttpPlanilhasPorLinha ==
    {PlanilhaPorLinhaAusente}
    \cup [exists : {TRUE},
          columns : {{"data", "linha", "producao"}} \cup
                    {{"data", "linha", "producao"} \ {c} : c \in {"data", "linha", "producao"}},
          rows : {<<>>,
                  <<[data |-> CelData(20240105), linha |-> L1, producao |-> 100]>>,
                  <<[data |-> CelTexto, linha |-> L1, producao |-> 100]>>}]
ProducaoPorLinhaInterativo(f) ==
    /\ resp' = [endpoint |-> "producao_por_linha_interativo", arquivo |-> f,
                selecionado |-> 0]
               @@ producao_por_linha_interativo(f)
    /\ UNCHANGED <<oee, teep, layout>>
Grafico4RefugoPorCausa ==
    /\ \E f \in Planilhas({"causa", "quantidade"}) :
         resp' = [endpoint |-> "grafico4_refugo_por_causa", arquivo |-> f]
                 @@ grafico4_refugo_por_causa(f)
    /\ UNCHANGED <<oee, teep, layout>>
Grafico5CorrelacaoTempDefeitos ==
    /\ \E f \in Planilhas({"temperatura_forno", "defeitos"}), statsmodels \in BOOLEAN :
         resp' = [endpoint |-> "grafico5_correlacao_temp_defeitos", arquivo |-> f]
                 @@ grafico5_correlacao_temp_defeitos(f, statsmodels)
    /\ UNCHANGED <<oee, teep, layout>>
Grafico6EficienciaTurno ==
    /\ \E f \in Planilhas({"linha", "turno", "eficiencia"}) :
         resp' = [endpoint |-> "grafico6_eficiencia_turno", arquivo |-> f]
                 @@ grafico6_eficiencia_turno(f)
    /\ UNCHANGED <<oee, teep, layout>>
Grafico7OeeVelocimetro ==
    /\ \E f \in Planilhas({"valor"}) :
         resp' = [endpoint |-> "grafico7_oee_velocimetro", arquivo |-> f]
                 @@ grafico7_oee_velocimetro(f)
    /\ UNCHANGED <<oee, teep, layout>>

InitHttp ==
    /\ oee = ArquivoAusente
    /\ teep = ArquivoAusente
    /\ resp = NoResp
    /\ layout = NoLayout

NextHttp ==
    \/ \E c \in {"", "oee"} : GravarOee(c)
    \/ \E c \in {"", "teep"} : GravarTeep(c)
    \/ ApagarOee
    \/ ApagarTeep
    \/ \E row \in HttpOeeRows : AcrescentarOee(row)
    \/ \E row \in HttpTeepRows : AcrescentarTeep(row)
    \/ Grafico1ProducaoDiaria
    \/ Grafico2ProducaoPorLinha
    \/ Grafico3RefugoPorLinha
    \/ \E f \in HttpPlanilhasPorLinha : ProducaoPorLinhaInterativo(f)
    \/ Grafico4RefugoPorCausa
    \/ Grafico5CorrelacaoTempDefeitos
    \/ Grafico6EficienciaTurno
    \/ Grafico7OeeVelocimetro
    \/ Grafico8TeepUtilizacao
    \/ Grafico9OeeDiario
    \/ \E linha \in ChartLinhas : CreateFigOeeMensal(linha)
    \/ \E linha \in ChartLinhas : CreateFigTeepMensal(linha)

SpecHttp == InitHttp /\ [][NextHttp]_vars

\* C10. Every request yields a renderable result: whatever the state of its
\* workbook (absent, a required column absent, no rows, a date cell that is
\* no date), a chart entry point returns a response or a figure and does not
\* end by raising.
C10_EveryRequestRenderable ==
    resp.endpoint # "none" => ~resp.raised

(***************************************************************************)
(* Further claims about the KPI cards (SpecKpi)                            *)
(***************************************************************************)
\* the values a category's latest observation may have: those of its rows at
\* its maximum date, or of any of its rows when none has a date
LatestVals(file, metric, c) ==
    IF Dated(file, c) # {}
    THEN {file.rows[i][metric] : i \in AtMaxData(file, c)}
    ELSE {file.rows[i][metric] : i \in RowsOf(file, c)}

\* C11, for one file and its two cards
SingleCategory(file, metric, lado, smt_card, im_card) ==
    (~lado.raised /\ Cardinality(Categorias(file)) = 1) =>
        /\ \E c \in Categorias(file) : lado.smt \in LatestVals(file, metric, c)
        /\ lado.im = lado.smt
        /\ smt_card.value = formata_kpi("", lado.smt).value
        /\ im_card.value = smt_card.value
        /\ im_card.delta_label = smt_card.delta_label
        /\ im_card.delta_value = smt_card.delta_value
        /\ im_card.is_positive = smt_card.is_positive

\* C11 (as claimed): when a file holds exactly one category, the SMT and the
\* IM card of its metric both show that category's latest value and have the
\* same value, delta and is_positive. The two cards are always the same; the
\* value is not the latest one when the category has a row with an empty date
\* cell (C23).
C11_SingleCategoryFallback ==
    (IsKpiResp /\ ~resp.raised) =>
        /\ SingleCategory(oee, "oee", resp.oee_lado, resp.kpis[1], resp.kpis[2])
        /\ SingleCategory(teep, "teep", resp.teep_lado, resp.kpis[3], resp.kpis[4])

(***************************************************************************)
(* SpecKpiLite: the two KPI entry points over files of few kinds of rows,  *)
(* small enough to be explored with one more row than MaxRows              *)
(***************************************************************************)
KpiLiteOeeRows ==
    {[data |-> CelData(20240105), linha |-> L1, oee |-> Num(7000)],
     [data |-> CelData(20240210), linha |-> L2, oee |-> Num(9000)],
     [data |-> CelVazia, linha |-> L1, oee |-> Num(9000)],
     [data |-> CelTexto, linha |-> L1, oee |-> Num(7000)]}
KpiLiteTeepRows ==
    {[data |-> CelData(20240105), linha |-> L1, utilizacao |-> Num(8000), teep |-> Num(6000)],
     [data |-> CelData(20240210), linha |-> L2, utilizacao |-> Num(8000), teep |-> Num(8000)],
     [data |-> CelVazia, linha |-> L1, utilizacao |-> Num(8000), teep |-> Num(8000)],
     [data |-> CelTexto, linha |-> L1, utilizacao |-> Num(8000), teep |-> Num(8000)]}

NextKpiLite ==
    \/ \E c \in {"", "oee"} : GravarOee(c)
    \/ \E c \in {"", "data"} : GravarTeep(c)
    \/ ApagarOee
    \/ ApagarTeep
    \/ \E row \in KpiLiteOeeRows : AcrescentarOee(row)
    \/ \E row \in KpiLiteTeepRows : AcrescentarTeep(row)
    \/ KpisResumo
    \/ ComputeKpis

SpecKpiLite == InitKpi /\ [][NextKpiLite]_vars

\* C12, for one file and its two cards
ZeroCategory(file, smt_card, im_card) ==
    (Loads(file) /\ file.rows = <<>>) =>
        /\ smt_card.value = "0,0%" /\ ~smt_card.is_positive
        /\ im_card.value = "0,0%" /\ ~im_card.is_positive
        /\ smt_card.delta_label = "Abaixo da meta"
        /\ im_card.delta_label = "Abaixo da meta"

\* C12. Zero-category fallback: when a file loads and holds no rows, the SMT
\* and the IM card of its metric that kpis_resumo or compute_kpis returns
\* show 0.0 and are not positive.
C12_ZeroCategoryFallback ==
    (IsKpiResp /\ ~resp.raised) =>
        /\ ZeroCategory(oee, resp.kpis[1], resp.kpis[2])
        /\ ZeroCategory(teep, resp.kpis[3], resp.kpis[4])

\* kpis_resumo returned cards for an empty oee.xlsx next to a teep.xlsx that
\* has a row
C12_Witness ==
    /\ resp.endpoint = "kpis_resumo" /\ ~resp.raised
    /\ Loads(oee) /\ oee.rows = <<>>
    /\ teep.rows # <<>>
    /\ resp.kpis[1].value = "0,0%"
    /\ resp.kpis[3].value # "0,0%"

(***************************************************************************)
(* SpecFormata: formata_kpi applied to a title and a value                 *)
(***************************************************************************)
KpiTitles == {"OEE SMT", "OEE IM", "TEEP SMT", "TEEP IM"}
KpiValores ==
    {Num(x) : x \in (meta - MaxDesvio)..(meta + MaxDesvio)}
    \cup {Num(0), Num(10000), NaN}

FormataKpi ==
    /\ \E title \in KpiTitles, valor \in KpiValores :
         resp' = [endpoint |-> "formata_kpi", valor |-> valor]
                 @@ formata_kpi(title, valor)
    /\ UNCHANGED <<oee, teep, layout>>

NextFormata == FormataKpi

SpecFormata == InitKpi /\ [][NextFormata]_vars

\* C13. Pass/fail flag: is_positive is true exactly when the value is at
\* least 0.77 (7700; a value equal to the target is above it, NaN is not),
\* and delta_label is "Acima da meta" exactly when is_positive is true and
\* "Abaixo da meta" otherwise.
C13_PassFailFlag ==
    resp.endpoint = "formata_kpi" =>
        /\ resp.is_positive <=> (~resp.valor.nan /\ resp.valor.v >= 7700)
        /\ resp.is_positive => resp.delta_label = "Acima da meta"
        /\ ~resp.is_positive => resp.delta_label = "Abaixo da meta"

\* the value is the target itself
C13_Witness ==
    /\ resp.endpoint = "formata_kpi"
    /\ resp.valor = Num(7700)
    /\ resp.is_positive
    /\ resp.delta_label = "Acima da meta"
    /\ resp.value = "77,0%"

(***************************************************************************)
(* SpecChartLite: the chart entry points of SpecChart over fewer rows      *)
(***************************************************************************)
ChartLiteOeeRows ==
    {[data |-> CelData(20240105), linha |-> L1, oee |-> Num(7000)],
     [data |-> CelData(20240105), linha |-> L2, oee |-> NaN],
     [data |-> CelData(20240210), linha |-> L2, oee |-> Num(9000)],
     [data |-> CelVazia, linha |-> L1, oee |-> Num(9000)],
     [data |-> CelTexto, linha |-> L2, oee |-> Num(9000)]}
ChartLiteTeepRows ==
    {[data |-> CelData(20240105), linha |-> L1,
      utilizacao |-> Num(5000), teep |-> Num(6000)],
     [data |-> CelData(20240105), linha |-> L1,
      utilizacao |-> NaN, teep |-> Num(8000)],
     [data |-> CelData(20240210), linha |-> L2,
      utilizacao |-> NaN, teep |-> Num(8000)],
     [data |-> CelData(20240210), linha |-> L2,
      utilizacao |-> Num(5000), teep |-> NaN],
     [data |-> CelTexto, linha |-> L1,
      utilizacao |-> Num(5000), teep |-> Num(8000)]}

NextChartLite ==
    \/ \E c \in {"", "linha"} : ~teep.exists /\ GravarOee(c)
    \/ \E c \in {"", "utilizacao"} : ~oee.exists /\ GravarTeep(c)
    \/ \E h \in ChartOeeCabecalhos : ~teep.exists /\ GravarOeeCabecalho(h)
    \/ \E h \in ChartTeepCabecalhos : ~oee.exists /\ GravarTeepCabecalho(h)
    \/ ApagarOee
    \/ ApagarTeep
    \/ \E row \in ChartLiteOeeRows : AcrescentarOee(row)
    \/ \E row \in ChartLiteTeepRows : AcrescentarTeep(row)
    \/ \E linha \in ChartLinhas : CreateFigOeeMensal(linha)
    \/ \E linha \in ChartLinhas : CreateFigTeepMensal(linha)
    \/ Grafico9OeeDiario
    \/ Grafico8TeepUtilizacao

SpecChartLite == InitChart /\ [][NextChartLite]_vars

(***************************************************************************)
(* Further claims about the monthly charts (SpecChartLite)                 *)
(***************************************************************************)
\* the required names no header text of the file gives once it is stripped
\* and put in lower case
Ausentes(file, esperadas) ==
    {c \in Range(esperadas) :
        \A k \in 1..Len(file.columns) :
            str_lower(str_strip(file.columns[k])) # StrLit(c)}

\* the names a chart response reports as missing: those of the annotation of
\* a figure builder, those of the exception text of an HTTP handler
Reportadas ==
    IF IsFigBuilderResp
    THEN IF resp.fig.annotations # <<>> THEN resp.fig.annotations[1].faltando ELSE <<>>
    ELSE resp.faltando

ColunasFaltandoOutcome ==
    IF IsFigBuilderResp
    THEN /\ ~resp.raised
         /\ resp.fig.data = <<>>
         /\ resp.fig.annotations # <<>>
         /\ resp.fig.annotations[1].text
              = (IF IsOeeChart THEN "Colunas faltando no Excel OEE"
                 ELSE "Colunas faltando no Excel TEEP")
    ELSE /\ resp.status_code = 500
         /\ resp.exc = "ValueError"
         /\ resp.faltando # <<>>

\* C14. Missing-column detection: a chart loader that reads its file reports
\* as missing exactly the required names absent after normalization, each
\* once, and gives the missing-columns outcome exactly when there is one.
C14_MissingColumns ==
    (IsChartResp /\ ChartFile.exists) =>
        /\ Range(Reportadas) = Ausentes(ChartFile, ChartEsperadas)
        /\ Len(Reportadas) = Cardinality(Ausentes(ChartFile, ChartEsperadas))
        /\ ColunasFaltandoOutcome <=> Ausentes(ChartFile, ChartEsperadas) # {}

\* " Data " and "LINHA" are there, the four other names are reported
C14_Witness ==
    /\ resp.endpoint = "create_fig_oee_mensal"
    /\ oee.exists
    /\ Len(oee.columns) = 2
    /\ ColunasFaltandoOutcome
    /\ resp.fig.annotations[1].faltando
         = <<"disponibilidade", "performance", "qualidade", "oee">>

(***************************************************************************)
(* Claims about the failures of the loaders                                *)
(***************************************************************************)
ArquivoNaoEncontrado ==
    IF IsOeeChart THEN "Arquivo oee.xlsx nao encontrado"
    ELSE "Arquivo teep.xlsx nao encontrado"

\* what a chart entry point gives for a file that is not there: the message
\* that names the file, and no series
ChartSourceNotFound ==
    IF IsFigBuilderResp
    THEN /\ ~resp.raised
         /\ resp.fig.data = <<>>
         /\ resp.fig.annotations = <<[text |-> ArquivoNaoEncontrado, faltando |-> <<>>]>>
    ELSE /\ resp.status_code = 500
         /\ resp.html = ArquivoNaoEncontrado

\* C15. Source not found: an entry point whose file does not exist gives a
\* source-not-found failure for that file: the chart entry points their
\* message, the KPI entry points a failure that tells of the missing file (of
\* teep.xlsx once oee.xlsx has loaded).
C15_SourceNotFound ==
    /\ (IsChartResp /\ ~ChartFile.exists) => ChartSourceNotFound
    /\ (IsKpiResp /\ ~oee.exists) =>
           resp.raised /\ resp.exc = "FileNotFoundError"
    /\ (IsKpiResp /\ Loads(oee) /\ ~resp.oee_lado.raised /\ ~teep.exists) =>
           resp.raised /\ resp.exc = "FileNotFoundError"

\* a cell of the file's date column is a text that is no date, and the
\* columns the entry point needs before it parses the dates are there
InvalidDate(file, needed) ==
    /\ file.exists
    /\ needed \subseteq df_columns(file)
    /\ to_datetime_raises(file.rows)

\* a message in the place of the chart
ChartPlaceholder ==
    /\ ~resp.raised
    /\ resp.fig.data = <<>>
    /\ IF IsFigBuilderResp
       THEN resp.fig.annotations # <<>> /\ resp.fig.annotations[1].text # ""
       ELSE resp.html \notin {"", "plotly"}

\* C16. Invalid date handling: when a date cell cannot be parsed, the chart
\* entry point answers with a message in the place of the chart, and the KPI
\* entry point answers with cards, those of the unparseable file at zero; no
\* entry point ends with an exception.
C16_InvalidDatePlaceholder ==
    /\ (IsChartResp /\ InvalidDate(ChartFile, Range(ChartEsperadas))) =>
           ChartPlaceholder
    /\ (IsKpiResp /\ InvalidDate(oee, {"data"})) =>
           /\ ~resp.raised
           /\ resp.kpis[1].value = "0,0%" /\ resp.kpis[2].value = "0,0%"
    /\ (IsKpiResp /\ Loads(oee) /\ InvalidDate(teep, {"data"})) =>
           /\ ~resp.raised
           /\ resp.kpis[3].value = "0,0%" /\ resp.kpis[4].value = "0,0%"

(***************************************************************************)
(* Claims about the monthly series and the figure (SpecChartLite)          *)
(***************************************************************************)
\* the dated rows the chart is made of that lack the value of a metric
LackingIn(file, linha, cols) ==
    {i \in DatedIn(file, linha) : \E c \in cols : file.rows[i][c].nan}

\* row i, which lacks a value: its month is in the series; the mean of a metric
\* it lacks is taken over the other valued rows of the month, the mean of a
\* metric it has is taken over rows that include it
RowLackingOk(file, linha, cols, df_mes, i) ==
    \E k \in 1..Len(df_mes) :
        /\ df_mes[k].ano_mes = MonthOf(file, i)
        /\ \A c \in cols :
             LET S == ValuedIn(file, linha, MonthOf(file, i), c)
             IN /\ (i \in S) <=> ~file.rows[i][c].nan
                /\ IsMeanTimes100(df_mes[k].pct[c], file, S, c)

\* C17. Missing metric values in the rollup: a row that lacks the value of one
\* metric is left out of that metric's monthly mean only; it counts toward the
\* means of the other metrics of its month, and its month is in the series.
C17_MissingMetricValues ==
    (IsChartResp /\ TableLoads(ChartFile, ChartEsperadas)) =>
        /\ ~resp.raised
        /\ \A i \in LackingIn(ChartFile, resp.linha, ChartMetrics) :
             RowLackingOk(ChartFile, resp.linha, ChartMetrics, resp.df_mes, i)

\* a month of two rows, one without Utilizacao (TEEP 80 %) and one with
\* Utilizacao 50 % and TEEP 60 %: the mean of Utilizacao is 50, that of TEEP 70
C17_Witness ==
    /\ resp.endpoint = "create_fig_teep_mensal"
    /\ ~resp.raised
    /\ LackingIn(teep, resp.linha, {"utilizacao", "teep"}) # {}
    /\ \E k \in 1..Len(resp.df_mes) :
         /\ resp.df_mes[k].pct["utilizacao"] = [nan |-> FALSE, num |-> 500000, den |-> 1]
         /\ resp.df_mes[k].pct["teep"] = [nan |-> FALSE, num |-> 1400000, den |-> 2]

\* the series of the figure that bear the target's name
TargetSeries(fig) == {n \in 1..Len(fig.data) : fig.data[n].name = "Target 75%"}

\* C18. Target overlay: a rendered monthly chart has one target series; it has
\* as many points as the monthly frame has rows, its labels are the month
\* labels of the rows in their order, and every point is 75.
C18_TargetOverlay ==
    (IsChartResp /\ ~resp.raised /\ resp.fig.data # <<>>) =>
        /\ Cardinality(TargetSeries(resp.fig)) = 1
        /\ \A n \in TargetSeries(resp.fig) :
             /\ resp.fig.data[n].type = "scatter"
             /\ Len(resp.fig.data[n].x) = Len(resp.df_mes)
             /\ Len(resp.fig.data[n].y) = Len(resp.df_mes)
             /\ \A k \in 1..Len(resp.df_mes) :
                  /\ resp.fig.data[n].x[k] = resp.df_mes[k].mes_label
                  /\ resp.fig.data[n].y[k] = [nan |-> FALSE, num |-> 750000, den |-> 1]

\* a chart of January and February 2024
C18_Witness ==
    /\ resp.endpoint = "grafico8_teep_utilizacao"
    /\ resp.html = "plotly"
    /\ Len(resp.df_mes) = 2
    /\ \E n \in TargetSeries(resp.fig) :
         /\ resp.fig.data[n].x = <<"Jan/2024", "Feb/2024">>
         /\ Len(resp.fig.data[n].y) = 2

(***************************************************************************)
(* SpecHeaders: every OEE/TEEP entry point over workbooks whose header     *)
(* rows are written in several ways. Among the header rows are two with    *)
(* two date columns, "Data" and "data", and "data" and "data"; every other *)
(* name heads one column at most.                                          *)
(***************************************************************************)
Canonico(esperadas) == Colunas(esperadas)
\* " Data ", "LINHA", "Disponibilidade", ...: capitals and blanks
Enfeitado(esperadas) ==
    [k \in 1..Len(esperadas) |->
        IF k = 1 THEN Padded(str_title(StrLit(esperadas[k])))
        ELSE IF k % 2 = 0 THEN str_upper(StrLit(esperadas[k]))
        ELSE BlankAfter(str_title(StrLit(esperadas[k])))]

HeaderOeeCabecalhos ==
    {Canonico(esperadas_oee),
     Enfeitado(esperadas_oee),
     <<str_title(StrLit("data"))>> \o Canonico(esperadas_oee),
     <<StrLit("data")>> \o Canonico(esperadas_oee),
     SubSeq(Canonico(esperadas_oee), 1, 2),
     SubSeq(Enfeitado(esperadas_oee), 1, 2)}
HeaderTeepCabecalhos ==
    {Canonico(esperadas_teep),
     Enfeitado(esperadas_teep),
     SubSeq(Canonico(esperadas_teep), 2, 4),
     SubSeq(Enfeitado(esperadas_teep), 2, 4)}

HeaderOeeRows ==
    {[data |-> CelData(20240105), linha |-> L1, oee |-> Num(7000)],
     [data |-> CelData(20240210), linha |-> L2, oee |-> Num(9000)]}
HeaderTeepRows ==
    {[data |-> CelData(20240105), linha |-> L1,
      utilizacao |-> Num(5000), teep |-> Num(8000)],
     [data |-> CelData(20240210), linha |-> L2,
      utilizacao |-> NaN, teep |-> Num(6000)]}

GetLinhasDisponiveis ==
    /\ resp' = [endpoint |-> "get_linhas_disponiveis",
                linhas |-> get_linhas_disponiveis(oee)]
    /\ UNCHANGED <<oee, teep, layout>>

NextHeaders ==
    \/ \E h \in HeaderOeeCabecalhos : GravarOeeCabecalho(h)
    \/ \E h \in HeaderTeepCabecalhos : GravarTeepCabecalho(h)
    \/ ApagarOee
    \/ ApagarTeep
    \/ \E row \in HeaderOeeRows : AcrescentarOee(row)
    \/ \E row \in HeaderTeepRows : AcrescentarTeep(row)
    \/ \E linha \in ChartLinhas : CreateFigOeeMensal(linha)
    \/ \E linha \in ChartLinhas : CreateFigTeepMensal(linha)
    \/ Grafico9OeeDiario
    \/ Grafico8TeepUtilizacao
    \/ KpisResumo
    \/ ComputeKpis
    \/ GetLinhasDisponiveis

SpecHeaders == InitKpi /\ [][NextHeaders]_vars

\* two header rows differ in nothing but the capitals of their texts and the
\* blanks around them
SameUpToCase(h1, h2) ==
    /\ Len(h1) = Len(h2)
    /\ \A k \in 1..Len(h1) : str_lower(str_strip(h1[k])) = str_lower(str_strip(h2[k]))

\* the file, and the files that differ from it in that way alone
Variantes(file, cabecalhos) ==
    IF ~file.exists THEN {file}
    ELSE {[file EXCEPT !.columns = h] :
            h \in {x \in cabecalhos \cup {file.columns} : SameUpToCase(x, file.columns)}}

\* no two header texts of the file are one name once stripped and in lower case
DistinctLabels(file) ==
    \A j, k \in 1..Len(file.columns) :
        j # k => str_lower(str_strip(file.columns[j])) # str_lower(str_strip(file.columns[k]))

\* what the entry point e may answer over the files o and t
HeaderOutcomes(e, linha, o, t) ==
    CASE e = "create_fig_oee_mensal" -> {create_fig_oee_mensal(o, linha)}
      [] e = "create_fig_teep_mensal" -> {create_fig_teep_mensal(t, linha)}
      [] e = "grafico9_oee_diario" -> {grafico9_oee_diario(o)}
      [] e = "grafico8_teep_utilizacao" -> {grafico8_teep_utilizacao(t)}
      [] e = "kpis_resumo" ->
           {kpis_resumo(o, t, po, pt) :
               po \in KpiSortOrders(o, "oee"), pt \in KpiSortOrders(t, "teep")}
      [] e = "compute_kpis" ->
           {compute_kpis(o, t, po, pt) :
               po \in KpiSortOrders(o, "oee"), pt \in KpiSortOrders(t, "teep")}
      [] e = "get_linhas_disponiveis" -> {[linhas |-> get_linhas_disponiveis(o)]}

RespLinha == IF IsChartResp THEN resp.linha ELSE SemLinha
RespOf(r) ==
    IF IsChartResp THEN [endpoint |-> resp.endpoint, linha |-> resp.linha] @@ r
    ELSE [endpoint |-> resp.endpoint] @@ r

\* the answer is one the entry point may give over the files g and h, and the
\* entry point may give over g and h what it may give over oee.xlsx and
\* teep.xlsx
SameOutputs(g, h) ==
    /\ HeaderOutcomes(resp.endpoint, RespLinha, g, h)
         = HeaderOutcomes(resp.endpoint, RespLinha, oee, teep)
    /\ \E r \in HeaderOutcomes(resp.endpoint, RespLinha, g, h) : resp = RespOf(r)

\* C19, as stated. Column-name normalization: files that differ only in the
\* capitals and the surrounding blanks of their header texts get the same
\* output from every OEE/TEEP entry point.
C19_HeaderNormalization ==
    resp.endpoint # "none" =>
        \A g \in Variantes(oee, HeaderOeeCabecalhos),
           h \in Variantes(teep, HeaderTeepCabecalhos) : SameOutputs(g, h)

\* C19, amended. Files whose header texts stay distinct once stripped and in
\* lower case, and that differ only in the capitals and the surrounding blanks
\* of those texts, get the same output from every OEE/TEEP entry point.
C19_HeaderNormalizationDistinct ==
    (resp.endpoint # "none" /\ DistinctLabels(oee) /\ DistinctLabels(teep)) =>
        \A g \in Variantes(oee, HeaderOeeCabecalhos),
           h \in Variantes(teep, HeaderTeepCabecalhos) : SameOutputs(g, h)

\* a chart of the workbook whose header row reads " Data ", "LINHA", ...
C19_Witness ==
    /\ resp.endpoint = "create_fig_oee_mensal"
    /\ oee.columns = Enfeitado(esperadas_oee)
    /\ [oee EXCEPT !.columns = Canonico(esperadas_oee)]
         \in Variantes(oee, HeaderOeeCabecalhos)
    /\ ~resp.raised
    /\ Len(resp.df_mes) = 2
    /\ resp.fig.data # <<>>

(***************************************************************************)
(* The callback of the dropdown (SpecDash)                                 *)
(***************************************************************************)
\* the filter a dropdown value stands for
FiltroDe(linha_value) ==
    IF linha_value.none \/ linha_value.s = ALL THEN SemLinha ELSE ALinha(linha_value.s)

\* the figure is the one the builder makes of the file as it is and the
\* filter; a chart is drawn from the monthly series of the filter's rows
RedrawnFrom(graph, built, file, esperadas, cols, filtro) ==
    /\ graph = built
    /\ ~graph.raised
    /\ (TableLoads(file, esperadas) /\ DatedIn(file, filtro) # {}) =>
         /\ MonthlySeriesOk(file, filtro, cols, graph.df_mes)
         /\ BarsShow(graph.fig, cols, graph.df_mes)

\* C20. Reactive redraw: a change of the dropdown value makes
\* atualizar_graficos build both figures anew with one filter (none for None
\* and "ALL", the selected category otherwise), from the value and the files
\* as they are and from nothing else.
C20_ReactiveRedraw ==
    resp.endpoint = "atualizar_graficos" =>
        /\ ~resp.raised
        /\ resp.linha = FiltroDe(resp.linha_value)
        /\ RedrawnFrom(resp.oee_graph,
                       create_fig_oee_mensal(oee, FiltroDe(resp.linha_value)),
                       oee, esperadas_oee, {"oee"}, FiltroDe(resp.linha_value))
        /\ RedrawnFrom(resp.teep_graph,
                       create_fig_teep_mensal(teep, FiltroDe(resp.linha_value)),
                       teep, esperadas_teep, {"utilizacao", "teep"},
                       FiltroDe(resp.linha_value))

(***************************************************************************)
(* SpecKpiTwice: a KPI entry point invoked, and invoked again, on files    *)
(* that did not change in between. The files hold rows of one category on  *)
(* one date with different values, and rows without a date.                *)
(***************************************************************************)
KpiTwiceOeeRows ==
    {[data |-> CelData(20240105), linha |-> L1, oee |-> Num(7000)],
     [data |-> CelData(20240105), linha |-> L1, oee |-> Num(9000)],
     [data |-> CelData(20240105), linha |-> L2, oee |-> Num(9000)],
     [data |-> CelVazia, linha |-> L1, oee |-> Num(7000)],
     [data |-> CelTexto, linha |-> L1, oee |-> Num(7000)]}
KpiTwiceTeepRows ==
    {[data |-> CelData(20240210), linha |-> L1, utilizacao |-> Num(8000), teep |-> Num(6000)],
     [data |-> CelData(20240210), linha |-> L1, utilizacao |-> Num(8000), teep |-> Num(8000)],
     [data |-> CelVazia, linha |-> L2, utilizacao |-> Num(8000), teep |-> Num(8000)]}

\* a defect C21_Idempotence has to detect: a sort that may order the rows of
\* equal dates differently on every call
argsort_again_Any(orders, p) == orders

\* numpy's argsort, which sort_values calls, draws no random number: given the
\* frame it was given before, it returns the order p it returned before
argsort_again(orders, p) == {p}

\* the first invocation since the files were written
InvocarKpis(name) ==
    /\ resp = NoResp
    /\ \E po \in KpiSortOrders(oee, "oee"), pt \in KpiSortOrders(teep, "teep") :
         resp' = [endpoint |-> name, vez |-> 1, po |-> po, pt |-> pt,
                  anterior |-> <<>>, anterior_raised |-> FALSE]
                 @@ KpiEndpoint(name, oee, teep, po, pt)
    /\ UNCHANGED <<oee, teep, layout>>

\* the same entry point invoked once more; no file was written since (a
\* written file resets resp)
InvocarKpisDeNovo ==
    /\ IsKpiResp
    /\ \E po \in argsort_again(KpiSortOrders(oee, "oee"), resp.po),
          pt \in argsort_again(KpiSortOrders(teep, "teep"), resp.pt) :
         resp' = [endpoint |-> resp.endpoint, vez |-> 2, po |-> po, pt |-> pt,
                  anterior |-> resp.kpis, anterior_raised |-> resp.raised]
                 @@ KpiEndpoint(resp.endpoint, oee, teep, po, pt)
    /\ UNCHANGED <<oee, teep, layout>>

NextKpiTwice ==
    \/ \E c \in {"", "oee"} : GravarOee(c)
    \/ \E c \in {"", "data"} : GravarTeep(c)
    \/ ApagarOee
    \/ ApagarTeep
    \/ \E row \in KpiTwiceOeeRows : AcrescentarOee(row)
    \/ \E row \in KpiTwiceTeepRows : AcrescentarTeep(row)
    \/ \E name \in {"kpis_resumo", "compute_kpis"} : InvocarKpis(name)
    \/ InvocarKpisDeNovo

SpecKpiTwice == InitKpi /\ [][NextKpiTwice]_vars

OtherKpiEndpoint ==
    IF resp.endpoint = "kpis_resumo" THEN "compute_kpis" ELSE "kpis_resumo"

\* the two KPI entry points, run on the files as they are with the sort
\* ordering the rows as it did for resp, both return, and return the same
\* four cards
SameCards ==
    \A po \in argsort_again(KpiSortOrders(oee, "oee"), resp.po),
       pt \in argsort_again(KpiSortOrders(teep, "teep"), resp.pt) :
        LET other == KpiEndpoint(OtherKpiEndpoint, oee, teep, po, pt)
        IN /\ ~resp.raised /\ ~other.raised
           /\ Len(resp.kpis) = 4
           /\ other.kpis = resp.kpis

\* a file that holds a row holds the column of its metric
HoldsMetric(file, metric) == file.rows # <<>> => metric \in df_columns(file)

DatedRowSelected(file, lado) ==
    ~lado.raised =>
        \A k \in 1..Len(lado.ultimos) :
            Dated(file, lado.ultimos[k].Linha) # {} =>
                /\ ~lado.ultimos[k].Data.nat
                /\ file.rows[lado.ultimos[k].idx].data.tipo = "data"

\* C23 (as claimed): for every category that has at least one row with a
\* valid date, the row whose value a KPI entry point selects has a valid
\* date; a row with an empty date cell is never the most recent observation.
\* The code sorts with sort_values("Data"), which puts the rows without a
\* date last, and takes each category's last row with tail(1).
C23_UndatedNeverWins ==
    (IsKpiResp /\ ~resp.raised) =>
        /\ DatedRowSelected(oee, resp.oee_lado)
        /\ DatedRowSelected(teep, resp.teep_lado)

(***************************************************************************)
(* Claims about the texts of one card (SpecFormata)                        *)
(***************************************************************************)
\* the texts a sign is followed by in delta_value: a number of one decimal
\* with a comma, and "%"
UnsignedDeltas ==
    {ToString(a) \o "," \o ToString(b) \o "%" : a \in 0..100, b \in 0..9}

\* the signs delta_value starts with
SignsOf(delta_value) ==
    {sg \in {"+", "-"} : \E u \in UnsignedDeltas : delta_value = sg \o u}

\* C24. Delta sign agrees with the flag: for every value that is a number
\* (a fraction of 1 in steps of 1/10000), delta_value starts with "+" exactly
\* when is_positive is true and with "-" exactly when it is false, also when
\* the delta rounds to 0,0 at one decimal.
C24_DeltaSignAgrees ==
    (resp.endpoint = "formata_kpi" /\ ~resp.valor.nan) =>
        /\ SignsOf(resp.delta_value) = (IF resp.is_positive THEN {"+"} ELSE {"-"})
        /\ resp.is_positive <=> resp.valor.v >= meta

\* a value below the target by less than 0.05 points: the delta rounds to 0,0
\* and keeps its minus
C24_Witness ==
    /\ resp.endpoint = "formata_kpi"
    /\ resp.valor = Num(meta - 1)
    /\ ~resp.is_positive
    /\ resp.delta_value = "-0,0%"
    /\ SignsOf(resp.delta_value) = {"-"}

(***************************************************************************)
(* SpecInterativo: the interactive chart of the production per line, and   *)
(* the buttons of its dropdown chosen in the browser                       *)
(***************************************************************************)
PorLinhaRows ==
    {[data |-> CelData(20240105), linha |-> L1, producao |-> 100],
     [data |-> CelData(20240210), linha |-> L2, producao |-> 200],
     [data |-> CelData(20240105), linha |-> CelInt(10), producao |-> 100],
     [data |-> CelVazia, linha |-> L2, producao |-> 100],
     [data |-> CelTexto, linha |-> L1, producao |-> 100]}

\* the workbooks with all three columns and up to MaxRows rows, and those
\* that lack a column, with one row at most
PlanilhasPorLinha ==
    {PlanilhaPorLinhaAusente}
    \cup {[exists |-> TRUE, columns |-> {"data", "linha", "producao"}, rows |-> rows] :
            rows \in UNION {[1..n -> PorLinhaRows] : n \in 0..MaxRows}}
    \cup {[exists |-> TRUE, columns |-> {"data", "linha", "producao"} \ {c}, rows |-> rows] :
            c \in {"data", "linha", "producao"},
            rows \in UNION {[1..n -> PorLinhaRows] : n \in 0..1}}

\* the i-th button of the dropdown is chosen in the page the handler returned
SelecionarLinha(i) ==
    /\ resp.endpoint = "producao_por_linha_interativo"
    /\ resp.status_code = 200
    /\ i \in 1..Len(resp.html.layout.updatemenus[1].buttons)
    /\ resp' = [resp EXCEPT !.html = update_button(@, i),
                            !.title = update_button(resp.html, i).layout.title,
                            !.selecionado = i]
    /\ UNCHANGED <<oee, teep, layout>>

NextInterativo ==
    \/ \E f \in PlanilhasPorLinha : ProducaoPorLinhaInterativo(f)
    \/ \E i \in 1..MaxRows : SelecionarLinha(i)

SpecInterativo == InitHttp /\ [][NextInterativo]_vars

\* the workbook is read and parsed, and every column the chart needs is there
PorLinhaLoads(f) ==
    /\ f.exists
    /\ {"data", "linha", "producao"} \subseteq f.columns
    /\ \A i \in 1..Len(f.rows) : f.rows[i].data.tipo # "texto"

\* the position of the first row of line c
FirstRowOf(f, c) == Min(RowsOf(f, c))

\* names lists every line of f once, in the order in which the lines first
\* appear in the rows
InOrderOfFirstAppearance(f, names) ==
    /\ Range(names) = Categorias(f)
    /\ Len(names) = Cardinality(Categorias(f))
    /\ \A k, l \in 1..Len(names) :
         k < l => FirstRowOf(f, names[k]) < FirstRowOf(f, names[l])

\* the trace shows the rows of line c, in the order of the rows
TraceOfLine(f, trace, c) ==
    /\ trace.name = c
    /\ Len(trace.y) = Cardinality(RowsOf(f, c))
    /\ \A n \in 1..Len(trace.y) :
         \E i \in RowsOf(f, c) :
            /\ Cardinality({j \in RowsOf(f, c) : j <= i}) = n
            /\ trace.y[n] = f.rows[i].producao
            /\ trace.x[n] = to_datetime(f.rows[i].data)

\* the trace that is to be seen: the first, or that of the last button chosen
Shown == IF resp.selecionado = 0 THEN 1 ELSE resp.selecionado

\* C25. Interactive chart of the production per line: of a table with rows,
\* the figure has one trace and one button per distinct line, in the order in
\* which the lines first appear; at first the trace of the first line only is
\* visible, and after every sequence of choices of a button exactly one trace
\* is visible, that of the line chosen last, and the title names that line.
\* Of a table without rows the handler returns the error response.
C25_InteractiveChart ==
    (resp.endpoint = "producao_por_linha_interativo" /\ PorLinhaLoads(resp.arquivo)) =>
        IF resp.arquivo.rows = <<>>
        THEN /\ resp.status_code = 500
             /\ resp.html = "Erro ao gerar grafico interativo"
             /\ ~resp.raised
        ELSE LET fig == resp.html
                 buttons == fig.layout.updatemenus[1].buttons
                 names == [k \in 1..Len(fig.data) |-> fig.data[k].name]
             IN /\ resp.status_code = 200
                /\ InOrderOfFirstAppearance(resp.arquivo, names)
                /\ \A k \in 1..Len(names) : TraceOfLine(resp.arquivo, fig.data[k], names[k])
                /\ [i \in 1..Len(buttons) |-> buttons[i].label] = names
                /\ \A k \in 1..Len(fig.data) : fig.data[k].visible <=> k = Shown
                /\ fig.layout.title = <<"Producao diaria - ", names[Shown]>>
                /\ resp.title = fig.layout.title

\* a table whose lines first appear in the order L2, L1, after the button of
\* L2 and then that of L1 was chosen
C25_Witness ==
    /\ resp.endpoint = "producao_por_linha_interativo"
    /\ resp.status_code = 200
    /\ Len(resp.arquivo.rows) = 3
    /\ resp.arquivo.rows[1].linha = L2
    /\ resp.arquivo.rows[2].linha = L1
    /\ resp.arquivo.rows[3].linha = L2
    /\ resp.selecionado = 2
    /\ Len(resp.html.data) = 2
    /\ ~resp.html.data[1].visible /\ resp.html.data[2].visible
    /\ resp.html.data[2].name = L1.s
    /\ resp.html.layout.title = <<"Producao diaria - ", L1.s>>

(***************************************************************************)
(* C26: which rows the KPI cards depend on (SpecKpi)                       *)
(***************************************************************************)
L3 == CelStr(<<76, 51>>)

\* the rows an edit may write: those of the files, and rows of a line "L3",
\* all with a date or with an empty date cell
EditRows(metric) ==
    {r \in (IF metric = "oee" THEN KpiOeeRows ELSE KpiTeepRows) : r.data.tipo # "texto"}
    \cup (IF metric = "oee"
          THEN [data : {CelData(20240105), CelData(20240210)}, linha : {L3},
                oee : {Num(7000), Num(9000)}]
          ELSE [data : {CelData(20240105), CelData(20240210)}, linha : {L3},
                utilizacao : {Num(8000)}, teep : {Num(6000), Num(8000)}])

\* in the file, two categories at least sort before the category of the row
SortsThirdOrLater(file, row) ==
    Cardinality({d \in Categorias(file) : StrLess(d, astype_str(row.linha))}) >= 2

\* the files got from file by removing, changing or adding one row of a
\* category that sorts third or later, before the edit and after it
ThirdCategoryEdits(file, metric) ==
    LET later == {i \in 1..Len(file.rows) : SortsThirdOrLater(file, file.rows[i])}
    IN {g \in {[file EXCEPT !.rows = SelectIdx(@, (1..Len(@)) \ {i})] : i \in later}
              \cup {[file EXCEPT !.rows[i] = r] : i \in later, r \in EditRows(metric)}
              \cup {[file EXCEPT !.rows = Append(@, r)] : r \in EditRows(metric)} :
          \A k \in 1..Len(g.rows) :
             (k > Len(file.rows) \/ g.rows[k] # file.rows[k]) =>
                SortsThirdOrLater(g, g.rows[k])}

\* the rows of a category that sorts before every category of the file
RowsBeforeFirst(file, metric) ==
    {r \in EditRows(metric) :
        /\ Categorias(file) # {}
        /\ \A d \in Categorias(file) : StrLess(astype_str(r.linha), d)}

\* C26, for one file and the half of the computation that read it
TwoSmallestOnly(file, metric, lado) ==
    /\ \A g \in ThirdCategoryEdits(file, metric) :
         \A p \in KpiSortOrders(g, metric) :
            LET a == KpiLado(g, metric, p)
            IN ~a.raised /\ a.smt = lado.smt /\ a.im = lado.im
    /\ \A r \in RowsBeforeFirst(file, metric) :
         LET g == [file EXCEPT !.rows = Append(@, r)]
         IN \A p \in KpiSortOrders(g, metric) :
               LET a == KpiLado(g, metric, p)
               IN /\ ~a.raised
                  /\ a.linhas[1] = astype_str(r.linha)
                  /\ a.linhas[2] = lado.linhas[1]
                  /\ a.smt = r[metric]

\* C26 (as claimed): the cards of a file's metric are the same after a row of
\* a category that sorts third or later is added, removed or changed, and
\* after a row of a category that sorts before the first is added, the SMT
\* card shows that category and the IM card the one that was first. The
\* second half holds; the cards change with a row of a third category when a
\* category among the first two has rows of one date with different values,
\* which sort_values may order anew (C5).
C26_TwoSmallestOnly ==
    (IsKpiResp /\ ~resp.raised /\ ~resp.oee_lado.raised /\ ~resp.teep_lado.raised) =>
        /\ TwoSmallestOnly(oee, "oee", resp.oee_lado)
        /\ TwoSmallestOnly(teep, "teep", resp.teep_lado)

(***************************************************************************)
(* C27: the target of the charts and the target of the cards               *)
(***************************************************************************)
\* the reference lines of a figure
ReferenceLines(fig) ==
    {n \in 1..Len(fig.data) : fig.data[n].type = "scatter" /\ fig.data[n].mode = "lines"}

\* the card formata_kpi makes of a monthly value (a mean times 100, as the
\* chart shows it); the flag of a value between two multiples of 1/10000 is
\* that of the lower one, the target being such a multiple
CardOfPct(pct) == formata_kpi("", Num(pct.num \div (100 * pct.den)))

\* C27 (as claimed): the reference line of a monthly chart is drawn at the
\* target of the KPI cards (0.77, "Meta: >= 77%"), and a monthly value of
\* the chart's metric is at or above the line exactly when the card of that
\* value is flagged positive. The charts draw the line at 0.75.
C27_OneTarget ==
    (IsChartResp /\ ~resp.raised /\ resp.fig.data # <<>>) =>
        \A n \in ReferenceLines(resp.fig) :
            /\ resp.fig.data[n].name = "Target " \o Fmt0(meta * 100) \o "%"
            /\ \A k \in 1..Len(resp.df_mes) :
                 LET pct == resp.df_mes[k].pct[IF IsOeeChart THEN "oee" ELSE "teep"]
                     line == resp.fig.data[n].y[k]
                 IN /\ line = Float(meta * 100)
                    /\ ~pct.nan =>
                         (pct.num * line.den >= line.num * pct.den
                            <=> CardOfPct(pct).is_positive)

=============================================================================
